---- MODULE Spec2Model ----
(***************************************************************************)
(* A model of aarc: atomically updatable reference-counted pointers with   *)
(* deferred reclamation.                                                   *)
(*                                                                         *)
(*   - StickyCounter (utils/sticky_counter.rs), one atomic access a step   *)
(*   - Arc / Weak / Snapshot and the drop closures (smart_ptrs.rs)         *)
(*   - StandardReclaimer (smr/standard_reclaimer.rs)                       *)
(*   - AtomicArc (atomics.rs)                                              *)
(*                                                                         *)
(* Every thread runs a stack of pending steps (tasks[t]); the head is the  *)
(* next atomic access of the call in progress.  A call pushes its steps,   *)
(* a step may push the steps of the calls it makes, so nested calls (a     *)
(* closure that retires, a node drop that cascades) unfold in order.       *)
(***************************************************************************)
EXTENDS Integers, Sequences, FiniteSets, TLC

----------------------------------------------------------------------------
(* Bounds of the model *)

\* number of threads (each owns one slot of the reclaimer)
NThreads == 2
\* number of allocation blocks
NBlocks == 2
\* width in bits of the modelled usize (the source's is 64)
BITS == 4
\* handles of one kind a thread may hold on one block
MaxHandles == 2
\* closures of one kind an arbitrary reclaimer may have pending for one block
MaxPending == 1
\* snapshot entries a slot may grow to
MaxSnap == 2
\* entries per node of a slot's snapshot list (the source's is 8)
SNAPSHOT_PTRS_PER_NODE == 1
\* CollectionNode and published Batch allocations alive at a time
MaxNodes == 4
MaxBatches == 2
\* retire(p, f) calls of test closures
MaxRetire == 2
\* atomic cells
NCells == 2
\* nesting of begin_critical_section calls of one thread
MaxDepth == 2
\* calls on atomic cells in one run
MaxCalls == 4
\* capacity a Vec takes on its first push (the source's, for these elements, is 4)
MIN_NON_ZERO_CAP == 1
\* slots per node of the slot table (the source's is 32)
SLOTS_PER_NODE == 1

Threads == 1..NThreads
Blocks == 1..NBlocks
Entries == 1..MaxSnap
NodeIds == 1..MaxNodes
BatchIds == 1..MaxBatches
RetireIds == 1..MaxRetire
Cells == 1..NCells

----------------------------------------------------------------------------
VARIABLES
    \* allocation blocks (smart_ptrs.rs ArcInner)
    strong,     \* strong[b]: raw word of block b's StickyCounter
    weak,       \* weak[b]: block b's weak AtomicUsize
    dropped,    \* dropped[b]: times drop_in_place ran on b's value
    freed,      \* freed[b]: times b's memory was deallocated
    \* handles held by user code
    arcs,       \* arcs[t][b]: Arc handles thread t holds on b
    weaks,      \* weaks[t][b]: Weak handles thread t holds on b
    \* threads
    tasks,      \* tasks[t]: pending steps of thread t, next step first
    ret,        \* ret[t]: value returned by the counter call that just ended
    \* an arbitrary reclaimer R: Retire, known only by its contract
    pool,       \* pool[b][k]: closures of kind k retired for b and not yet run
    \* observations
    zeroSeen,   \* zeroSeen[b]: a load returned 0 or a decrement returned 1
    asserted,   \* an assert! of the library failed
    \* test_counter_near_zero
    trial,      \* loop index i
    spawned,    \* closures spawned in this trial
    nz,         \* values the calls of this trial returned
    \* StandardReclaimer
    in_cs,      \* in_cs[s]: Slot::is_in_critical_section
    batch,      \* batch[s]: Slot::batch.functions, entries <<ptr, kind, id>>
    cap,        \* cap[s]: capacity of batch[s].functions
    snap_ptr,   \* snap_ptr[s]: the SnapshotPtr::ptr of the entries of slot s, in list
                \* order (0 = null); the list grows by a node when no entry is free
    conflicts,  \* conflicts[s][k]: head of SnapshotPtr::conflicts (0 = null)
    primary,    \* primary[s]: head of Slot::primary_list (0 = null)
    nodes,      \* nodes[n]: CollectionNode in an UnsafeArc; rc = 0 when not allocated
    batches,    \* batches[i]: published Batch in an UnsafeArc; rc = 0 when not allocated
    \* observations on the reclaimer
    depth,      \* depth[s]: begin_critical_section calls of s not yet matched by an end
    held,       \* held[s][k]: how user code got the handle on entry k ("none": no handle)
    retired,    \* retired[r]: pointer of the r-th retire(p, f) of a test closure (0 = not yet)
    blockers,   \* blockers[r]: slots whose critical section, open at retire r, is still open
    guards,     \* guards[r]: handles on retired[r] held at retire r and not released since
    executed,   \* executed[r]: times the closure of retire r ran
    \* atomic cells
    cell,       \* cell[c]: AtomicArc::ptr (0 = null)
    calls,      \* calls on cells made so far
    stored,     \* stored[c]: the pointer the last write to cell c was given
    is_dropped, \* StandardReclaimer::is_dropped
    \* values that own handles
    fields,     \* fields[b]: the handles b's value owns, <<kind, block>> in declaration order
    \* the slot table of a StandardReclaimer
    is_claimed, \* is_claimed[i]: Slot::is_claimed of item i of the linked nodes
    nodes_count, \* UnrolledLinkedList::nodes_count
    slot_lookup, \* slot_lookup[t]: the slot in thread t's SLOT_LOOKUP (0 = no entry)
    \* hyaline::Context and the thread-local SlotHandle of statics
    is_reserved, \* is_reserved[s]: Slot::is_reserved
    is_active,  \* is_active[s]: Slot::is_active
    slots_reserved, \* Context::slots_reserved
    slot_handle \* slot_handle[t]: SLOT_HANDLE of thread t (0 = null, Destroyed after its destructor)

slotVars == <<is_claimed, nodes_count, slot_lookup>>
hyVars == <<is_reserved, is_active, slots_reserved, slot_handle>>
ctxVars == <<slotVars, hyVars>>
ctrFrame == <<weak, dropped, freed, arcs, weaks, pool, asserted>>
testVars == <<trial, spawned, nz>>
smrVars == <<in_cs, batch, cap, snap_ptr, conflicts, primary, nodes, batches>>
smrObs == <<depth, held, retired, blockers, guards, executed>>
vars == <<strong, weak, dropped, freed, arcs, weaks, tasks, ret, pool, zeroSeen,
          asserted, trial, spawned, nz, in_cs, batch, cap, snap_ptr, conflicts,
          primary, nodes, batches, depth, held, retired, blockers, guards, executed, cell, calls, stored, is_dropped, fields, ctxVars>>

----------------------------------------------------------------------------
(* StickyCounter: the pure part *)

ZERO_BIT == 2 ^ (BITS - 1)
Modulus == 2 ^ BITS

\* Result<usize, ()>: the Err(()) of try_increment
Err == -1

is_zero(val) == (val \div ZERO_BIT) % 2 = 1

wrapping_add(val, n) == (val + n) % Modulus
wrapping_sub(val, n) == (val + Modulus - n) % Modulus

\* a try_increment that does not test the zero flag
try_increment_result_no_flag(before) == IF before = 0 THEN 1 ELSE before

\* try_increment: what is returned for the value fetch_add saw
try_increment_result(before) ==
    IF is_zero(before) THEN Err
    ELSE IF before = 0 THEN 1
    ELSE before

\* a decrement that reports 1 although an increment came first
decrement_cas_result_eager(val) == IF is_zero(val) THEN 0 ELSE 1

\* decrement: what is returned when the seal compare_exchange(0, ZERO_BIT) saw val
decrement_cas_result(val) ==
    IF val = 0 THEN 1
    ELSE IF is_zero(val) THEN 0
    ELSE val + 1

\* load: the final masking of the zero flag
load_result(val) == IF is_zero(val) THEN 0 ELSE val

\* compare_exchange(0, ZERO_BIT): the stored value afterwards
seal_cas(val) == IF val = 0 THEN ZERO_BIT ELSE val

----------------------------------------------------------------------------
(* Task stacks *)

Idle(t) == tasks[t] = <<>>
Top(t) == Head(tasks[t])
At(t, op) == tasks[t] # <<>> /\ Head(tasks[t])[1] = op
\* replace the running step by the steps ts
Continue(t, ts) == tasks' = [tasks EXCEPT ![t] = ts \o Tail(tasks[t])]
Start(t, ts) == tasks' = [tasks EXCEPT ![t] = ts]

NoRet == <<>>
Returned(t, op) == ret[t] # <<>> /\ ret[t][1] = op
\* <<op, val, after, seen>>: the call op returned val; after = 1 when the call's
\* first access came after zeroSeen; seen = the raw word that first access read
SetRet(t, op, val, after, seen) == ret' = [ret EXCEPT ![t] = <<op, val, after, seen>>]
ClearRet(t) == ret' = [ret EXCEPT ![t] = NoRet]

Flag(b) == IF b THEN 1 ELSE 0

----------------------------------------------------------------------------
(* StickyCounter: one atomic access per step *)

\* try_increment: self.0.fetch_add(1, SeqCst)
TryIncrement(t) ==
    /\ At(t, "try_increment")
    /\ LET b == Top(t)[2]
           before == strong[b]
           r == try_increment_result(before)
           after == Flag(zeroSeen[b])
       IN /\ strong' = [strong EXCEPT ![b] = wrapping_add(before, 1)]
          /\ IF r = Err
             THEN /\ Continue(t, << <<"try_increment_undo", b, after, before>> >>)
                  /\ UNCHANGED ret
             ELSE /\ Continue(t, <<>>)
                  /\ SetRet(t, "try_increment", r, after, before)
    /\ UNCHANGED <<zeroSeen, ctrFrame, testVars, smrVars, smrObs, cell, calls, stored, is_dropped, fields, ctxVars>>

\* try_increment on a sealed counter: self.0.fetch_sub(1, Relaxed); Err(())
TryIncrementUndo(t) ==
    /\ At(t, "try_increment_undo")
    /\ LET b == Top(t)[2]
       IN /\ strong' = [strong EXCEPT ![b] = wrapping_sub(strong[b], 1)]
          /\ SetRet(t, "try_increment", Err, Top(t)[3], Top(t)[4])
    /\ Continue(t, <<>>)
    /\ UNCHANGED <<zeroSeen, ctrFrame, testVars, smrVars, smrObs, cell, calls, stored, is_dropped, fields, ctxVars>>

\* decrement: self.0.fetch_sub(1, SeqCst)
Decrement(t) ==
    /\ At(t, "decrement")
    /\ LET b == Top(t)[2]
           before == strong[b]
       IN /\ strong' = [strong EXCEPT ![b] = wrapping_sub(before, 1)]
          /\ IF before = 1
             THEN /\ Continue(t, << <<"decrement_cas", b, 0, 0>> >>)
                  /\ UNCHANGED ret
             ELSE /\ Continue(t, <<>>)
                  /\ SetRet(t, "decrement", before, 0, before)
    /\ UNCHANGED <<zeroSeen, ctrFrame, testVars, smrVars, smrObs, cell, calls, stored, is_dropped, fields, ctxVars>>

\* decrement: self.0.compare_exchange(0, ZERO_BIT, SeqCst, SeqCst)
DecrementCas(t) ==
    /\ At(t, "decrement_cas")
    /\ LET b == Top(t)[2]
           val == strong[b]
           r == decrement_cas_result(val)
       IN /\ strong' = [strong EXCEPT ![b] = seal_cas(val)]
          /\ SetRet(t, "decrement", r, 0, 1)
          /\ zeroSeen' = [zeroSeen EXCEPT ![b] = @ \/ r = 1]
    /\ Continue(t, <<>>)
    /\ UNCHANGED <<ctrFrame, testVars, smrVars, smrObs, cell, calls, stored, is_dropped, fields, ctxVars>>

\* load: self.0.load(SeqCst)
Load(t) ==
    /\ At(t, "load")
    /\ LET b == Top(t)[2]
           val == strong[b]
           after == Flag(zeroSeen[b])
       IN IF val = 0
          THEN /\ Continue(t, << <<"load_cas", b, after, 0>> >>)
               /\ UNCHANGED <<ret, zeroSeen>>
          ELSE /\ Continue(t, <<>>)
               /\ SetRet(t, "load", load_result(val), after, val)
               /\ zeroSeen' = [zeroSeen EXCEPT ![b] = @ \/ load_result(val) = 0]
    /\ UNCHANGED <<strong, ctrFrame, testVars, smrVars, smrObs, cell, calls, stored, is_dropped, fields, ctxVars>>

\* load helping a racing decrement: compare_exchange(0, ZERO_BIT).unwrap_or_else(|x| x)
LoadCas(t) ==
    /\ At(t, "load_cas")
    /\ LET b == Top(t)[2]
           val == strong[b]
       IN /\ strong' = [strong EXCEPT ![b] = seal_cas(val)]
          /\ SetRet(t, "load", load_result(val), Top(t)[3], 0)
          /\ zeroSeen' = [zeroSeen EXCEPT ![b] = @ \/ load_result(val) = 0]
    /\ Continue(t, <<>>)
    /\ UNCHANGED <<ctrFrame, testVars, smrVars, smrObs, cell, calls, stored, is_dropped, fields, ctxVars>>

CounterStep(t) ==
    \/ TryIncrement(t)
    \/ TryIncrementUndo(t)
    \/ Decrement(t)
    \/ DecrementCas(t)
    \/ Load(t)
    \/ LoadCas(t)

----------------------------------------------------------------------------
(* Arc and Weak (smart_ptrs.rs) *)

Kinds == {"strong", "weak"}

\* a clone that copies the pointer and leaves the strong count alone
ArcCloneNoIncrement(t, b) ==
    /\ Idle(t)
    /\ arcs[t][b] > 0
    /\ arcs[t][b] < MaxHandles
    /\ arcs' = [arcs EXCEPT ![t][b] = @ + 1]
    /\ UNCHANGED <<strong, zeroSeen, tasks, ret, weak, dropped, freed, weaks, pool, asserted,
                   testVars, smrVars, smrObs, cell, calls, stored, is_dropped, fields, ctxVars>>

\* Clone for Arc: clone_from_raw -> increment_strong_count -> try_increment
ArcClone(t, b) ==
    /\ Idle(t)
    /\ arcs[t][b] > 0
    /\ arcs[t][b] < MaxHandles
    /\ Start(t, << <<"try_increment", b, 0, 0>>, <<"clone_from_raw", b, 0, 0>> >>)
    /\ UNCHANGED <<strong, zeroSeen, ret, ctrFrame, testVars, smrVars, smrObs, cell, calls, stored, is_dropped, fields, ctxVars>>

\* increment_strong_count: assert!(try_increment_strong_count(ptr)); from_raw
CloneFromRaw(t) ==
    /\ At(t, "clone_from_raw")
    /\ Returned(t, "try_increment")
    /\ LET b == Top(t)[2]
       IN IF ret[t][2] = Err
          THEN /\ asserted' = TRUE
               /\ UNCHANGED arcs
          ELSE /\ arcs' = [arcs EXCEPT ![t][b] = @ + 1]
               /\ UNCHANGED asserted
    /\ ClearRet(t)
    /\ Continue(t, <<>>)
    /\ UNCHANGED <<strong, zeroSeen, weak, dropped, freed, weaks, pool, testVars, smrVars, smrObs, cell, calls, stored, is_dropped, fields, ctxVars>>

\* Arc::downgrade: Weak::clone_from_raw -> weak.fetch_add(1, SeqCst)
ArcDowngrade(t, b) ==
    /\ Idle(t)
    /\ arcs[t][b] > 0
    /\ weaks[t][b] < MaxHandles
    /\ weak' = [weak EXCEPT ![b] = wrapping_add(@, 1)]
    /\ weaks' = [weaks EXCEPT ![t][b] = @ + 1]
    /\ UNCHANGED <<strong, zeroSeen, tasks, ret, dropped, freed, arcs, pool, asserted, testVars, smrVars, smrObs, cell, calls, stored, is_dropped, fields, ctxVars>>

\* a drop that calls the closure itself
ArcDropNow(t, b) ==
    /\ Idle(t)
    /\ arcs[t][b] > 0
    /\ pool[b]["strong"] < MaxPending
    /\ arcs' = [arcs EXCEPT ![t][b] = @ - 1]
    /\ Start(t, << <<"run_fn", b, "strong", 0>> >>)
    /\ UNCHANGED <<strong, zeroSeen, ret, weak, dropped, freed, weaks, pool, asserted, testVars, smrVars, smrObs, cell, calls, stored, is_dropped, fields, ctxVars>>

\* Drop for Arc: R::retire(ptr, get_drop_fn::<T, R, true>())
ArcDrop(t, b) ==
    /\ Idle(t)
    /\ arcs[t][b] > 0
    /\ pool[b]["strong"] < MaxPending
    /\ arcs' = [arcs EXCEPT ![t][b] = @ - 1]
    /\ Start(t, << <<"retire", b, "strong", 0>> >>)
    /\ UNCHANGED <<strong, zeroSeen, ret, weak, dropped, freed, weaks, pool, asserted, testVars, smrVars, smrObs, cell, calls, stored, is_dropped, fields, ctxVars>>

\* Drop for Weak: R::retire(ptr, get_drop_fn::<T, R, false>())
WeakDrop(t, b) ==
    /\ Idle(t)
    /\ weaks[t][b] > 0
    /\ pool[b]["weak"] < MaxPending
    /\ weaks' = [weaks EXCEPT ![t][b] = @ - 1]
    /\ Start(t, << <<"retire", b, "weak", 0>> >>)
    /\ UNCHANGED <<strong, zeroSeen, ret, weak, dropped, freed, arcs, pool, asserted, testVars, smrVars, smrObs, cell, calls, stored, is_dropped, fields, ctxVars>>

\* Weak::upgrade::<Arc>: Arc::try_clone_from_raw -> try_increment_strong_count
WeakUpgrade(t, b) ==
    /\ Idle(t)
    /\ weaks[t][b] > 0
    /\ arcs[t][b] < MaxHandles
    /\ Start(t, << <<"try_increment", b, 0, 0>>, <<"try_clone_from_raw", b, 0, 0>> >>)
    /\ UNCHANGED <<strong, zeroSeen, ret, weak, dropped, freed, arcs, weaks, pool,
                   asserted, testVars, smrVars, smrObs, cell, calls, stored, is_dropped, fields, ctxVars>>

\* try_increment_strong_count(ptr).then(|| from_raw(ptr))
TryCloneFromRaw(t) ==
    /\ At(t, "try_clone_from_raw")
    /\ Returned(t, "try_increment")
    /\ LET b == Top(t)[2]
           ok == ret[t][2] # Err
       IN arcs' = [arcs EXCEPT ![t][b] = IF ok THEN @ + 1 ELSE @]
    /\ ClearRet(t)
    /\ Continue(t, <<>>)
    /\ UNCHANGED <<strong, zeroSeen, weak, dropped, freed, weaks, pool, asserted,
                   testVars, smrVars, smrObs, cell, calls, stored, is_dropped, fields, ctxVars>>

\* Arc::strong_count: strong.load()
StrongCount(t, b) ==
    /\ Idle(t)
    /\ arcs[t][b] > 0
    /\ Start(t, << <<"load", b, 0, 0>>, <<"strong_count", b, 0, 0>> >>)
    /\ UNCHANGED <<strong, zeroSeen, ret, ctrFrame, testVars, smrVars, smrObs, cell, calls, stored, is_dropped, fields, ctxVars>>

StrongCountRet(t) ==
    /\ At(t, "strong_count")
    /\ Returned(t, "load")
    /\ ClearRet(t)
    /\ Continue(t, <<>>)
    /\ UNCHANGED <<strong, zeroSeen, ctrFrame, testVars, smrVars, smrObs, cell, calls, stored, is_dropped, fields, ctxVars>>

\* Weak::upgrade::<Snapshot> under an arbitrary reclaimer: of
\* Snapshot::try_clone_from_raw only strong.load() touches the block
WeakUpgradeSnapshotAny(t, b) ==
    /\ Idle(t)
    /\ weaks[t][b] > 0
    /\ Start(t, << <<"load", b, 0, 0>>, <<"strong_count", b, 0, 0>> >>)
    /\ UNCHANGED <<strong, zeroSeen, ret, ctrFrame, testVars, smrVars, smrObs, cell, calls, stored, is_dropped, fields, ctxVars>>

----------------------------------------------------------------------------
(* The closures of get_drop_fn *)

\* Drop for std::sync::Arc: at the last strong count the value is dropped and
\* the weak count the strong holders share is released
drop_arc(b) ==
    /\ strong' = [strong EXCEPT ![b] = wrapping_sub(@, 1)]
    /\ dropped' = [dropped EXCEPT ![b] = IF strong[b] = 1 THEN @ + 1 ELSE @]
    /\ weak' = [weak EXCEPT ![b] = IF strong[b] = 1 THEN wrapping_sub(@, 1) ELSE @]
    /\ freed' = [freed EXCEPT ![b] = IF strong[b] = 1 /\ weak[b] = 1 THEN @ + 1 ELSE @]

\* Drop for std::sync::Weak: at the last weak count the block is deallocated
drop_weak(b) ==
    /\ weak' = [weak EXCEPT ![b] = wrapping_sub(@, 1)]
    /\ freed' = [freed EXCEPT ![b] = IF weak[b] = 1 THEN @ + 1 ELSE @]
    /\ UNCHANGED <<strong, dropped>>

\* the drop of a value that owns std handles: drop(Arc) and drop(Weak) on
\* each such field, in declaration order; the drop of an AtomicArc or
\* AtomicWeak field retires the pointer its cell holds, if any
StdFieldDrops(b) ==
    LET hs == SelectSeq(fields[b],
                        LAMBDA f : \/ f[1] \in {"arc", "std_weak"}
                                   \/ /\ f[1] \in {"atomic_arc", "atomic_weak"}
                                      /\ cell[f[2]] # 0)
    IN [j \in 1..Len(hs) |->
           CASE hs[j][1] = "atomic_arc" -> <<"retire", cell[hs[j][2]], "arc", 0>>
             [] hs[j][1] = "atomic_weak" -> <<"retire", cell[hs[j][2]], "std_weak", 0>>
             [] OTHER -> <<"run_fn", hs[j][2], hs[j][1], 0>>]

\* a retired closure runs, up to its first atomic access: the closures of
\* smart_ptrs.rs ("strong", "weak"), the closures of atomics.rs ("arc":
\* drop(Arc::from_raw(ptr)), "std_weak": drop(Weak::from_raw(ptr))) and the
\* closure of the tests ("flag")
RunFn(t) ==
    /\ At(t, "run_fn")
    /\ LET p == Top(t)[2]
           kind == Top(t)[3]
           id == Top(t)[4]
       IN CASE kind = "strong" ->
                 /\ Continue(t, << <<"decrement", p, 0, 0>>, <<"strong_drop", p, 0, 0>> >>)
                 /\ UNCHANGED <<executed, strong, weak, dropped, freed>>
            [] kind = "weak" ->
                 /\ Continue(t, << <<"weak_drop", p, 0, 0>> >>)
                 /\ UNCHANGED <<executed, strong, weak, dropped, freed>>
            [] kind = "arc" ->
                 /\ Continue(t, IF strong[p] = 1 THEN StdFieldDrops(p) ELSE <<>>)
                 /\ drop_arc(p)
                 /\ UNCHANGED executed
            [] kind = "std_weak" ->
                 /\ Continue(t, <<>>)
                 /\ drop_weak(p)
                 /\ UNCHANGED executed
            [] kind = "flag" ->
                 /\ Continue(t, <<>>)
                 /\ executed' = [executed EXCEPT ![id] = @ + 1]
                 /\ UNCHANGED <<strong, weak, dropped, freed>>
    /\ UNCHANGED <<zeroSeen, ret, arcs, weaks, pool, asserted, testVars, smrVars, cell, calls, stored, is_dropped,
                   depth, held, retired, blockers, guards, fields, ctxVars>>

\* fields whose closures are called while the value is dropped
FieldDropsNow(b) == [j \in 1..Len(fields[b]) |-> <<"run_fn", fields[b][j][2], fields[b][j][1], 0>>]

\* drop_in_place(ptr) on a value that owns Arc and Weak handles: Drop for Arc
\* and Drop for Weak on each field, in declaration order
FieldDrops(b) == [j \in 1..Len(fields[b]) |-> <<"retire", fields[b][j][2], fields[b][j][1], 0>>]

\* IS_ARC closure after strong.decrement(): if it returned 1,
\* drop_in_place(ptr) and drop(Weak::from_raw(ptr))
StrongDrop(t) ==
    /\ At(t, "strong_drop")
    /\ Returned(t, "decrement")
    /\ LET b == Top(t)[2]
       IN IF ret[t][2] = 1
          THEN /\ dropped' = [dropped EXCEPT ![b] = @ + 1]
               /\ Continue(t, FieldDrops(b) \o << <<"retire", b, "weak", 0>> >>)
          ELSE /\ UNCHANGED dropped
               /\ Continue(t, <<>>)
    /\ ClearRet(t)
    /\ UNCHANGED <<strong, zeroSeen, weak, freed, arcs, weaks, pool, asserted,
                   testVars, smrVars, smrObs, cell, calls, stored, is_dropped, fields, ctxVars>>

\* !IS_ARC closure: if weak.fetch_sub(1, SeqCst) == 1 { dealloc(ptr) }
WeakDropFn(t) ==
    /\ At(t, "weak_drop")
    /\ LET b == Top(t)[2]
       IN /\ weak' = [weak EXCEPT ![b] = wrapping_sub(@, 1)]
          /\ freed' = [freed EXCEPT ![b] = IF weak[b] = 1 THEN @ + 1 ELSE @]
    /\ Continue(t, <<>>)
    /\ UNCHANGED <<strong, zeroSeen, ret, dropped, arcs, weaks, pool, asserted,
                   testVars, smrVars, smrObs, cell, calls, stored, is_dropped, fields, ctxVars>>

----------------------------------------------------------------------------
(* An arbitrary reclaimer (smr/drc.rs, trait Retire): it keeps the closure *)
(* and calls it exactly once, at any later time, on any thread.           *)

RetireAny(t) ==
    /\ At(t, "retire")
    /\ LET b == Top(t)[2]
           kind == Top(t)[3]
       IN pool' = [pool EXCEPT ![b][kind] = @ + 1]
    /\ Continue(t, <<>>)
    /\ UNCHANGED <<strong, zeroSeen, ret, weak, dropped, freed, arcs, weaks, asserted, testVars, smrVars, smrObs, cell, calls, stored, is_dropped, fields, ctxVars>>

CallAny(t, b, kind) ==
    /\ Idle(t)
    /\ pool[b][kind] > 0
    /\ pool' = [pool EXCEPT ![b][kind] = @ - 1]
    /\ Start(t, << <<"run_fn", b, kind, 0>> >>)
    /\ UNCHANGED <<strong, zeroSeen, ret, weak, dropped, freed, arcs, weaks, asserted, testVars, smrVars, smrObs, cell, calls, stored, is_dropped, fields, ctxVars>>

----------------------------------------------------------------------------
(* Initial values *)

NoNode == [batch |-> 0, next |-> 0, check |-> 0, rc |-> 0]
NoBatch == [fns |-> <<>>, rc |-> 0]

\* every thread has its slot (thread t has slot t), and no hyaline Context
\* is in use
InitCtx ==
    /\ is_claimed = [i \in 1..NThreads |-> TRUE]
    /\ nodes_count = (NThreads + SLOTS_PER_NODE - 1) \div SLOTS_PER_NODE
    /\ slot_lookup = [t \in Threads |-> t]
    /\ is_reserved = [s \in Threads |-> FALSE]
    /\ is_active = [s \in Threads |-> FALSE]
    /\ slots_reserved = 0
    /\ slot_handle = [t \in Threads |-> 0]

\* StandardReclaimer::new / Default of Slot, SnapshotPtr, CollectionList, Batch
InitSmr ==
    /\ in_cs = [s \in Threads |-> FALSE]
    /\ batch = [s \in Threads |-> <<>>]
    /\ cap = [s \in Threads |-> 0]
    /\ snap_ptr = [s \in Threads |-> [k \in 1..SNAPSHOT_PTRS_PER_NODE |-> 0]]
    /\ conflicts = [s \in Threads |-> [k \in Entries |-> 0]]
    /\ primary = [s \in Threads |-> 0]
    /\ nodes = [n \in NodeIds |-> NoNode]
    /\ batches = [i \in BatchIds |-> NoBatch]
    /\ depth = [s \in Threads |-> 0]
    /\ held = [s \in Threads |-> [k \in Entries |-> "none"]]
    /\ retired = [r \in RetireIds |-> 0]
    /\ blockers = [r \in RetireIds |-> {}]
    /\ guards = [r \in RetireIds |-> {}]
    /\ executed = [r \in RetireIds |-> 0]

InitThreads ==
    /\ tasks = [t \in Threads |-> <<>>]
    /\ ret = [t \in Threads |-> NoRet]
    /\ asserted = FALSE

InitTest ==
    /\ trial = 0
    /\ spawned = <<>>
    /\ nz = [f1 |-> <<>>, f2 |-> <<>>, main |-> <<>>]

RECURSIVE SumOver(_, _)
SumOver(f, S) ==
    IF S = {} THEN 0
    ELSE LET x == CHOOSE y \in S : TRUE
         IN f[x] + SumOver(f, S \ {x})

\* Block 1 as Arc::new_in, clones and downgrades left it: every strong handle
\* counted in strong, every weak handle plus the strong holders' token in weak
InitBlock ==
    /\ \E a \in [Threads -> 0..1], w \in [Threads -> 0..1] :
          /\ SumOver(a, Threads) >= 1
          /\ arcs = [t \in Threads |-> [b \in Blocks |-> IF b = 1 THEN a[t] ELSE 0]]
          /\ weaks = [t \in Threads |-> [b \in Blocks |-> IF b = 1 THEN w[t] ELSE 0]]
          /\ strong = [b \in Blocks |-> IF b = 1 THEN SumOver(a, Threads) ELSE 0]
          /\ weak = [b \in Blocks |-> IF b = 1 THEN SumOver(w, Threads) + 1 ELSE 0]
    /\ dropped = [b \in Blocks |-> 0]
    /\ freed = [b \in Blocks |-> 0]
    /\ pool = [b \in Blocks |-> [k \in Kinds |-> 0]]
    /\ zeroSeen = [b \in Blocks |-> FALSE]
    /\ cell = [c \in Cells |-> 0]
    /\ calls = 0
    /\ stored = cell
    /\ is_dropped = FALSE
    /\ InitCtx
    /\ fields = [b \in Blocks |-> <<>>]
    /\ InitThreads
    /\ InitTest
    /\ InitSmr

NextBlock ==
    \/ \E t \in Threads : CounterStep(t)
    \/ \E t \in Threads, b \in Blocks : ArcClone(t, b)
    \/ \E t \in Threads : CloneFromRaw(t)
    \/ \E t \in Threads, b \in Blocks : ArcDowngrade(t, b)
    \/ \E t \in Threads, b \in Blocks : ArcDrop(t, b)
    \/ \E t \in Threads, b \in Blocks : WeakDrop(t, b)
    \/ \E t \in Threads, b \in Blocks : WeakUpgrade(t, b)
    \/ \E t \in Threads : TryCloneFromRaw(t)
    \/ \E t \in Threads, b \in Blocks : StrongCount(t, b)
    \/ \E t \in Threads, b \in Blocks : WeakUpgradeSnapshotAny(t, b)
    \/ \E t \in Threads : StrongCountRet(t)
    \/ \E t \in Threads : RunFn(t)
    \/ \E t \in Threads : StrongDrop(t)
    \/ \E t \in Threads : WeakDropFn(t)
    \/ \E t \in Threads : RetireAny(t)
    \/ \E t \in Threads, b \in Blocks, k \in Kinds : CallAny(t, b, k)

SpecBlock == InitBlock /\ [][NextBlock]_vars

----------------------------------------------------------------------------
(* Properties of the block under an arbitrary reclaimer (SpecBlock) *)

sealed(b) == is_zero(strong[b])

\* nothing is running and no closure for b is pending
Quiescent(b) ==
    /\ \A t \in Threads : Idle(t)
    /\ \A k \in Kinds : pool[b][k] = 0

NoHandles(b) == \A t \in Threads : arcs[t][b] = 0 /\ weaks[t][b] = 0

\* C4: the value's drop runs at most once, only on a block whose strong
\* counter has sealed at zero, and a counter that sealed at zero has had its
\* value dropped once every call and every retired closure has finished.
C4_DropIffSealed ==
    \A b \in Blocks :
        /\ dropped[b] <= 1
        /\ dropped[b] = 1 => sealed(b)
        /\ (Quiescent(b) /\ sealed(b)) => dropped[b] = 1

\* C5: the memory is freed at most once, only with the weak counter at 0, the
\* weak counter is 0 only with the strong counter sealed, and a block with no
\* handle, no running call and no pending closure left has been freed.
C5_FreedOnce ==
    \A b \in Blocks :
        /\ freed[b] <= 1
        /\ freed[b] = 1 => weak[b] = 0
        /\ (b = 1 /\ weak[b] = 0) => sealed(b)
        /\ (b = 1 /\ Quiescent(b) /\ NoHandles(b)) => freed[b] = 1

\* C6: a try_increment whose increment came after a load returned 0, or after
\* a decrement returned 1, returns Err; a load whose read came after a load
\* returned 0 returns 0.
C6_Sticky ==
    \A t \in Threads :
        /\ (Returned(t, "try_increment") /\ ret[t][3] = 1) => ret[t][2] = Err
        /\ (Returned(t, "load") /\ ret[t][3] = 1) => ret[t][2] = 0

\* a try_increment that started on a counter seen at zero has returned
C6_Witness ==
    \E t \in Threads : Returned(t, "try_increment") /\ ret[t][3] = 1 /\ ret[t][2] = Err

----------------------------------------------------------------------------
(* test_counter_near_zero (utils/sticky_counter.rs) *)

TRIALS == 20

\* the counter x of the test is the strong word of block 1
X == 1

\* thread::scope: the order in which trial i spawns the closures
SpawnOrder(i) == IF i > TRIALS \div 2 THEN <<"f1", "f2">> ELSE <<"f2", "f1">>

NoResults == [f1 |-> <<>>, f2 |-> <<>>, main |-> <<>>]

\* the steps of a closure, as far as they are known when it starts
Closure(name) ==
    IF name = "f1"
    THEN << <<"decrement", X, 0, 0>>, <<"f1_before_sub", X, 0, 0>>,
            <<"load", X, 0, 0>>, <<"f1_val", X, 0, 0>> >>
    ELSE << <<"try_increment", X, 0, 0>>, <<"f2_before_inc", X, 0, 0>> >>

\* an assert! that fails panics, and the closure stops there
AssertThen(t, ok, rest) ==
    /\ asserted' = (asserted \/ ~ok)
    /\ tasks' = [tasks EXCEPT ![t] = IF ok THEN rest ELSE <<>>]
    /\ ClearRet(t)
    /\ UNCHANGED <<strong, zeroSeen, weak, dropped, freed, arcs, weaks, pool,
                   trial, spawned, smrVars, smrObs, cell, calls, stored, is_dropped, fields, ctxVars>>

\* s.spawn(f1) / s.spawn(f2): the t-th spawned closure runs on thread t
Spawn(t) ==
    /\ trial < TRIALS
    /\ ~asserted
    /\ t = Len(spawned) + 1
    /\ t <= 2
    /\ spawned' = Append(spawned, SpawnOrder(trial)[t])
    /\ Start(t, Closure(SpawnOrder(trial)[t]))
    /\ UNCHANGED <<strong, zeroSeen, ret, weak, dropped, freed, arcs, weaks, pool,
                   asserted, trial, nz, smrVars, smrObs, cell, calls, stored, is_dropped, fields, ctxVars>>

\* f1: let before_sub = x.decrement(); assert!(before_sub == 1 || before_sub == 2)
F1BeforeSub(t) ==
    /\ At(t, "f1_before_sub")
    /\ Returned(t, "decrement")
    /\ nz' = [nz EXCEPT !.f1 = Append(@, ret[t][2])]
    /\ AssertThen(t, ret[t][2] = 1 \/ ret[t][2] = 2, Tail(tasks[t]))

\* f1: let val = x.load(); assert!(val == 0 || val == 1 || val == 2)
F1Val(t) ==
    /\ At(t, "f1_val")
    /\ Returned(t, "load")
    /\ nz' = [nz EXCEPT !.f1 = Append(@, ret[t][2])]
    /\ AssertThen(t, ret[t][2] = 0 \/ ret[t][2] = 1 \/ ret[t][2] = 2, Tail(tasks[t]))

\* f2: if let Ok(before_inc) = x.try_increment() { assert_eq!(before_inc, 1); ... }
F2BeforeInc(t) ==
    /\ At(t, "f2_before_inc")
    /\ Returned(t, "try_increment")
    /\ nz' = [nz EXCEPT !.f2 = Append(@, ret[t][2])]
    /\ IF ret[t][2] = Err
       THEN AssertThen(t, TRUE, <<>>)
       ELSE AssertThen(t, ret[t][2] = 1,
                       << <<"decrement", X, 0, 0>>, <<"f2_before_sub", X, 0, 0>> >>)

\* f2: let before_sub = x.decrement(); assert!(before_sub == 1 || before_sub == 2)
F2BeforeSub(t) ==
    /\ At(t, "f2_before_sub")
    /\ Returned(t, "decrement")
    /\ nz' = [nz EXCEPT !.f2 = Append(@, ret[t][2])]
    /\ AssertThen(t, ret[t][2] = 1 \/ ret[t][2] = 2, Tail(tasks[t]))

\* the scope has joined both threads: x.load() of the main thread
MainLoad ==
    /\ Len(spawned) = 2
    /\ ~asserted
    /\ \A t \in Threads : Idle(t)
    /\ nz.main = <<>>
    /\ Start(1, << <<"load", X, 0, 0>>, <<"main_load", X, 0, 0>> >>)
    /\ UNCHANGED <<strong, zeroSeen, ret, weak, dropped, freed, arcs, weaks, pool,
                   asserted, testVars, smrVars, smrObs, cell, calls, stored, is_dropped, fields, ctxVars>>

\* assert_eq!(x.load(), 0)
MainAssert ==
    /\ At(1, "main_load")
    /\ Returned(1, "load")
    /\ nz' = [nz EXCEPT !.main = Append(@, ret[1][2])]
    /\ AssertThen(1, ret[1][2] = 0, <<>>)

\* the next iteration: let x = StickyCounter::default()
NextTrial ==
    /\ nz.main # <<>>
    /\ ~asserted
    /\ Idle(1)
    /\ trial' = trial + 1
    /\ spawned' = <<>>
    /\ nz' = NoResults
    /\ strong' = [strong EXCEPT ![X] = 1]
    /\ zeroSeen' = [zeroSeen EXCEPT ![X] = FALSE]
    /\ UNCHANGED <<tasks, ret, weak, dropped, freed, arcs, weaks, pool, asserted,
                   smrVars, smrObs, cell, calls, stored, is_dropped, fields, ctxVars>>

InitNearZero ==
    /\ strong = [b \in Blocks |-> IF b = X THEN 1 ELSE 0]
    /\ weak = [b \in Blocks |-> 0]
    /\ arcs = [t \in Threads |-> [b \in Blocks |-> 0]]
    /\ weaks = [t \in Threads |-> [b \in Blocks |-> 0]]
    /\ dropped = [b \in Blocks |-> 0]
    /\ freed = [b \in Blocks |-> 0]
    /\ pool = [b \in Blocks |-> [k \in Kinds |-> 0]]
    /\ zeroSeen = [b \in Blocks |-> FALSE]
    /\ cell = [c \in Cells |-> 0]
    /\ calls = 0
    /\ stored = cell
    /\ is_dropped = FALSE
    /\ InitCtx
    /\ fields = [b \in Blocks |-> <<>>]
    /\ InitThreads
    /\ trial = 0
    /\ spawned = <<>>
    /\ nz = NoResults
    /\ InitSmr

NextNearZero ==
    \/ \E t \in Threads : CounterStep(t)
    \/ \E t \in Threads : Spawn(t)
    \/ \E t \in Threads : F1BeforeSub(t)
    \/ \E t \in Threads : F1Val(t)
    \/ \E t \in Threads : F2BeforeInc(t)
    \/ \E t \in Threads : F2BeforeSub(t)
    \/ MainLoad
    \/ MainAssert
    \/ NextTrial

SpecNearZero == InitNearZero /\ [][NextNearZero]_vars

\* C10: in test_counter_near_zero no assertion fails: a successful
\* try_increment reports 1, every decrement reports 1 or 2, the load of the
\* first closure reports 0, 1 or 2, and the load after the scope reports 0.
C10_NearZero ==
    /\ ~asserted
    /\ \A k \in 1..Len(nz.f1) : IF k = 1 THEN nz.f1[k] \in {1, 2} ELSE nz.f1[k] \in {0, 1, 2}
    /\ \A k \in 1..Len(nz.f2) : IF k = 1 THEN nz.f2[k] \in {Err, 1} ELSE nz.f2[k] \in {1, 2}
    /\ \A k \in 1..Len(nz.main) : nz.main[k] = 0

----------------------------------------------------------------------------
(* StandardReclaimer (smr/standard_reclaimer.rs) *)

blockVars == <<strong, zeroSeen, weak, dropped, freed, arcs, weaks, pool, asserted>>

MinOf(S) == CHOOSE x \in S : \A y \in S : x <= y

\* a lookup that retire never fills
lookup_unfilled(fns) == {}

\* Batch::lookup: the pointers of a batch
lookup(fns) == {fns[j][1] : j \in 1..Len(fns)}

\* every thread has claimed its slot: the slot table has this many nodes
get_nodes_count == (NThreads + SLOTS_PER_NODE - 1) \div SLOTS_PER_NODE
\* a capacity that does not grow with the slot table
next_batch_size_one_node == SLOTS_PER_NODE

\* let next_batch_size = self.slots.get_nodes_count() * SLOTS_PER_NODE
next_batch_size == get_nodes_count * SLOTS_PER_NODE

FreeNodes == {n \in DOMAIN nodes : nodes[n].rc = 0}
FreeBatches == {i \in BatchIds : batches[i].rc = 0}

\* for slot in self.slots.iter(SeqCst)
ScanTasks(i) == [s \in 1..NThreads |-> <<"scan_slot", i, s, 0>>]
\* for snapshot_ptr in slot.snapshots.iter(SeqCst)
SnapshotTasks(i, s) == [k \in 1..Len(snap_ptr[s]) |-> <<"scan_snapshot", i, s, k>>]
\* for (ptr, f) in self.functions.iter()
FunctionTasks(fns) == [j \in 1..Len(fns) |-> <<"run_fn", fns[j][1], fns[j][2], fns[j][3]>>]

\* the head of a CollectionList: <<s, 0>> is slot s's primary_list,
\* <<s, k>> the conflicts of its snapshot entry k
head(list) == IF list[2] = 0 THEN primary[list[1]] ELSE conflicts[list[1]][list[2]]

SetHead(list, n) ==
    IF list[2] = 0
    THEN /\ primary' = [primary EXCEPT ![list[1]] = n]
         /\ UNCHANGED conflicts
    ELSE /\ conflicts' = [conflicts EXCEPT ![list[1]][list[2]] = n]
         /\ UNCHANGED primary

\* a retire that publishes the batch and leaves its entries in the local one
RetireBody_no_replace(t, ptr, kind, id, rest) ==
    LET fns == Append(batch[t], <<ptr, kind, id>>)
        capacity == IF cap[t] = 0 THEN MIN_NON_ZERO_CAP ELSE cap[t]
    IN IF Len(fns) < capacity
       THEN /\ batch' = [batch EXCEPT ![t] = fns]
            /\ cap' = [cap EXCEPT ![t] = capacity]
            /\ tasks' = [tasks EXCEPT ![t] = rest]
            /\ UNCHANGED batches
       ELSE /\ FreeBatches # {}
            /\ LET i == MinOf(FreeBatches)
               IN /\ batches' = [batches EXCEPT ![i] = [fns |-> fns, rc |-> 1]]
                  /\ tasks' = [tasks EXCEPT ![t] =
                                  ScanTasks(i) \o << <<"dec_batch", i, 0, 0>> >> \o rest]
            /\ batch' = [batch EXCEPT ![t] = fns]
            /\ cap' = [cap EXCEPT ![t] = next_batch_size]

\* a retire called from a closure

\* retire(ptr, f) by thread t, which goes on with rest: push to the local
\* batch; when it is full, replace it and publish it
RetireBody(t, ptr, kind, id, rest) ==
    LET fns == Append(batch[t], <<ptr, kind, id>>)
        capacity == IF cap[t] = 0 THEN MIN_NON_ZERO_CAP ELSE cap[t]
    IN IF Len(fns) < capacity
       THEN /\ batch' = [batch EXCEPT ![t] = fns]
            /\ cap' = [cap EXCEPT ![t] = capacity]
            /\ tasks' = [tasks EXCEPT ![t] = rest]
            /\ UNCHANGED batches
       ELSE /\ FreeBatches # {}
            /\ LET i == MinOf(FreeBatches)
               IN /\ batches' = [batches EXCEPT ![i] = [fns |-> fns, rc |-> 1]]
                  /\ tasks' = [tasks EXCEPT ![t] =
                                  ScanTasks(i) \o << <<"dec_batch", i, 0, 0>> >> \o rest]
            /\ batch' = [batch EXCEPT ![t] = <<>>]
            /\ cap' = [cap EXCEPT ![t] = next_batch_size]

\* a retire called from a closure
Retire(t) ==
    /\ At(t, "retire")
    /\ RetireBody(t, Top(t)[2], Top(t)[3], Top(t)[4], Tail(tasks[t]))
    /\ UNCHANGED <<in_cs, snap_ptr, conflicts, primary, nodes>>
    /\ UNCHANGED <<blockVars, ret, testVars, smrObs, cell, calls, stored, is_dropped, fields, ctxVars>>

\* a scan that takes no slot to be in a critical section
is_in_critical_section_never(s) == FALSE

\* slot.is_in_critical_section.load(SeqCst)
is_in_critical_section(s) == in_cs[s]

\* retire: if slot.is_in_critical_section.load(SeqCst)
ScanSlot(t) ==
    /\ At(t, "scan_slot")
    /\ LET i == Top(t)[2]
           s == Top(t)[3]
       IN IF is_in_critical_section(s)
          THEN Continue(t, << <<"insert", i, <<s, 0>>, s>> >>)
          ELSE Continue(t, SnapshotTasks(i, s))
    /\ UNCHANGED <<blockVars, ret, testVars, smrVars, smrObs, cell, calls, stored, is_dropped, fields, ctxVars>>

\* retire and Drop for CollectionNode: snapshot_ptr.ptr.load(SeqCst) and the
\* test !p.is_null() && batch.lookup.contains(&p)
ScanSnapshot(t) ==
    /\ At(t, "scan_snapshot")
    /\ LET i == Top(t)[2]
           s == Top(t)[3]
           k == Top(t)[4]
           p == snap_ptr[s][k]
       IN IF p # 0 /\ p \in lookup(batches[i].fns)
          THEN Continue(t, << <<"insert", i, <<s, k>>, 0>> >>)
          ELSE Continue(t, <<>>)
    /\ UNCHANGED <<blockVars, ret, testVars, smrVars, smrObs, cell, calls, stored, is_dropped, fields, ctxVars>>

\* an insert whose new node starts with the list's reference only
Insert_one_ref(t) ==
    /\ At(t, "insert")
    /\ FreeNodes # {}
    /\ LET i == Top(t)[2]
           list == Top(t)[3]
           n == MinOf(FreeNodes)
       IN /\ batches' = [batches EXCEPT ![i].rc = @ + 1]
          /\ nodes' = [nodes EXCEPT ![n] = [batch |-> i, next |-> 0,
                                            check |-> Top(t)[4], rc |-> 1]]
          /\ SetHead(list, n)
          /\ Continue(t, << <<"insert_link", n, head(list), 0>> >>)
    /\ UNCHANGED <<in_cs, batch, cap, snap_ptr>>
    /\ UNCHANGED <<blockVars, ret, testVars, smrObs, cell, calls, stored, is_dropped, fields, ctxVars>>

\* CollectionList::insert(batch.clone(), check_on_drop) up to self.head.swap
Insert(t) ==
    /\ At(t, "insert")
    /\ FreeNodes # {}
    /\ LET i == Top(t)[2]
           list == Top(t)[3]
           n == MinOf(FreeNodes)
       IN /\ batches' = [batches EXCEPT ![i].rc = @ + 1]
          /\ nodes' = [nodes EXCEPT ![n] = [batch |-> i, next |-> 0,
                                            check |-> Top(t)[4], rc |-> 2]]
          /\ SetHead(list, n)
          /\ Continue(t, << <<"insert_link", n, head(list), 0>> >>)
    /\ UNCHANGED <<in_cs, batch, cap, snap_ptr>>
    /\ UNCHANGED <<blockVars, ret, testVars, smrObs, cell, calls, stored, is_dropped, fields, ctxVars>>

\* a drop of a node that does not look at the snapshots of check_on_drop
DropNodeRefNoCheck(t, n, node) ==
    IF node.rc > 1
    THEN /\ nodes' = [nodes EXCEPT ![n] = [node EXCEPT !.rc = @ - 1]]
         /\ Continue(t, <<>>)
    ELSE /\ nodes' = [nodes EXCEPT ![n] = NoNode]
         /\ Continue(t,
               << <<"dec_batch", node.batch, 0, 0>> >>
               \o (IF node.next # 0 THEN << <<"dec_node", node.next, 0, 0>> >> ELSE <<>>))

\* Drop for UnsafeArc<CollectionNode> on node n whose fields are node: at the
\* last reference Drop for CollectionNode (the check_on_drop scan), then the
\* drop of its fields batch and next
DropNodeRef(t, n, node) ==
    IF node.rc > 1
    THEN /\ nodes' = [nodes EXCEPT ![n] = [node EXCEPT !.rc = @ - 1]]
         /\ Continue(t, <<>>)
    ELSE /\ nodes' = [nodes EXCEPT ![n] = NoNode]
         /\ Continue(t,
               (IF node.check # 0 THEN SnapshotTasks(node.batch, node.check) ELSE <<>>)
               \o << <<"dec_batch", node.batch, 0, 0>> >>
               \o (IF node.next # 0 THEN << <<"dec_node", node.next, 0, 0>> >> ELSE <<>>))

\* CollectionList::insert after the swap: new.next = Some(from_raw(next)); drop(new)
InsertLink(t) ==
    /\ At(t, "insert_link")
    /\ LET n == Top(t)[2]
       IN DropNodeRef(t, n, [nodes[n] EXCEPT !.next = Top(t)[3]])
    /\ UNCHANGED <<in_cs, batch, cap, snap_ptr, conflicts, primary, batches>>
    /\ UNCHANGED <<blockVars, ret, testVars, smrObs, cell, calls, stored, is_dropped, fields, ctxVars>>

\* the drop of a node's next field
DecNode(t) ==
    /\ At(t, "dec_node")
    /\ DropNodeRef(t, Top(t)[2], nodes[Top(t)[2]])
    /\ UNCHANGED <<in_cs, batch, cap, snap_ptr, conflicts, primary, batches>>
    /\ UNCHANGED <<blockVars, ret, testVars, smrObs, cell, calls, stored, is_dropped, fields, ctxVars>>

\* a drop of a batch reference that runs the closures although other
\* references are left
DecBatchEarly(t) ==
    /\ At(t, "dec_batch")
    /\ LET i == Top(t)[2]
       IN /\ batches' = [batches EXCEPT ![i] =
                            IF batches[i].rc > 1 THEN [@ EXCEPT !.rc = @ - 1] ELSE NoBatch]
          /\ Continue(t, FunctionTasks(batches[i].fns))
    /\ UNCHANGED <<in_cs, batch, cap, snap_ptr, conflicts, primary, nodes>>
    /\ UNCHANGED <<blockVars, ret, testVars, smrObs, cell, calls, stored, is_dropped, fields, ctxVars>>

\* Drop for UnsafeArc<Batch>; at the last reference Drop for Batch
DecBatch(t) ==
    /\ At(t, "dec_batch")
    /\ LET i == Top(t)[2]
       IN IF batches[i].rc > 1
          THEN /\ batches' = [batches EXCEPT ![i].rc = @ - 1]
               /\ Continue(t, <<>>)
          ELSE /\ batches' = [batches EXCEPT ![i] = NoBatch]
               /\ Continue(t, FunctionTasks(batches[i].fns))
    /\ UNCHANGED <<in_cs, batch, cap, snap_ptr, conflicts, primary, nodes>>
    /\ UNCHANGED <<blockVars, ret, testVars, smrObs, cell, calls, stored, is_dropped, fields, ctxVars>>

\* CollectionList::detach_head: head.swap(null); drop(UnsafeArc::from_raw(ptr))
DetachHead(t) ==
    /\ At(t, "detach_head")
    /\ LET list == <<Top(t)[2], Top(t)[3]>>
       IN /\ SetHead(list, 0)
          /\ IF head(list) # 0
             THEN DropNodeRef(t, head(list), nodes[head(list)])
             ELSE /\ Continue(t, <<>>)
                  /\ UNCHANGED nodes
    /\ UNCHANGED <<in_cs, batch, cap, snap_ptr, batches>>
    /\ UNCHANGED <<blockVars, ret, testVars, smrObs, cell, calls, stored, is_dropped, fields, ctxVars>>

ReclaimerStep(t) ==
    \/ Retire(t)
    \/ ScanSlot(t)
    \/ ScanSnapshot(t)
    \/ Insert(t)
    \/ InsertLink(t)
    \/ DecNode(t)
    \/ DecBatch(t)
    \/ DetachHead(t)
    \/ RunFn(t)

\* begin_critical_section, by a thread that has fewer than d sections open
BeginCriticalSection(t, d) ==
    /\ Idle(t)
    /\ depth[t] < d
    /\ in_cs' = [in_cs EXCEPT ![t] = TRUE]
    /\ depth' = [depth EXCEPT ![t] = @ + 1]
    /\ UNCHANGED <<batch, cap, snap_ptr, conflicts, primary, nodes, batches>>
    /\ UNCHANGED <<held, retired, blockers, guards, executed>>
    /\ UNCHANGED <<blockVars, tasks, ret, testVars, cell, calls, stored, is_dropped, fields, ctxVars>>

\* end_critical_section: is_in_critical_section.store(false); primary_list.detach_head()
EndCriticalSection(t) ==
    /\ Idle(t)
    /\ depth[t] > 0
    /\ in_cs' = [in_cs EXCEPT ![t] = FALSE]
    /\ depth' = [depth EXCEPT ![t] = @ - 1]
    /\ blockers' = [r \in RetireIds |->
                       IF depth[t] = 1 THEN blockers[r] \ {t} ELSE blockers[r]]
    /\ Start(t, << <<"detach_head", t, 0, 0>> >>)
    /\ UNCHANGED <<batch, cap, snap_ptr, conflicts, primary, nodes, batches>>
    /\ UNCHANGED <<held, retired, guards, executed>>
    /\ UNCHANGED <<blockVars, ret, testVars, cell, calls, stored, is_dropped, fields, ctxVars>>

FreeEntries(s) == {k \in 1..Len(snap_ptr[s]) : snap_ptr[s][k] = 0}

\* protect_ptr can be called while the list of t stays within m entries
CanProtect(t, m) ==
    FreeEntries(t) # {} \/ Len(snap_ptr[t]) + SNAPSHOT_PTRS_PER_NODE <= m

\* try_for_each_with_append: the entry protect_ptr takes, the first one whose
\* compare_exchange(null, ptr) succeeds, in a new node when none does
NextEntry(t) ==
    IF FreeEntries(t) # {} THEN MinOf(FreeEntries(t)) ELSE Len(snap_ptr[t]) + 1

\* protect_ptr(p) by thread t; how = the way user code holds the handle
protect_ptr(t, p, how) ==
    LET grown == IF FreeEntries(t) # {} THEN snap_ptr[t]
                 ELSE snap_ptr[t] \o [j \in 1..SNAPSHOT_PTRS_PER_NODE |-> 0]
    IN /\ snap_ptr' = [snap_ptr EXCEPT ![t] = [grown EXCEPT ![NextEntry(t)] = p]]
       /\ held' = [held EXCEPT ![t][NextEntry(t)] = how]

\* protect_ptr called by user code
ProtectPtr(t, p, m) ==
    /\ Idle(t)
    /\ CanProtect(t, m)
    /\ protect_ptr(t, p, "protect_ptr")
    /\ UNCHANGED <<in_cs, batch, cap, conflicts, primary, nodes, batches>>
    /\ UNCHANGED <<depth, retired, blockers, guards, executed>>
    /\ UNCHANGED <<blockVars, tasks, ret, testVars, cell, calls, stored, is_dropped, fields, ctxVars>>

\* SnapshotPtr::release: ptr.store(null); conflicts.detach_head()
Release(t, k) ==
    /\ Idle(t)
    /\ held[t][k] # "none"
    /\ snap_ptr' = [snap_ptr EXCEPT ![t][k] = 0]
    /\ held' = [held EXCEPT ![t][k] = "none"]
    /\ guards' = [r \in RetireIds |-> guards[r] \ {<<t, k>>}]
    /\ Start(t, << <<"detach_head", t, k, 0>> >>)
    /\ UNCHANGED <<in_cs, batch, cap, conflicts, primary, nodes, batches>>
    /\ UNCHANGED <<depth, retired, blockers, executed>>
    /\ UNCHANGED <<blockVars, ret, testVars, cell, calls, stored, is_dropped, fields, ctxVars>>

UnusedRetireIds == {r \in RetireIds : retired[r] = 0}

\* retire(p, Box::new(|_| flag.set(true))): the r-th such call
RetireFlag(t, p) ==
    /\ Idle(t)
    /\ UnusedRetireIds # {}
    /\ LET r == MinOf(UnusedRetireIds)
       IN /\ retired' = [retired EXCEPT ![r] = p]
          /\ blockers' = [blockers EXCEPT ![r] = {s \in Threads : depth[s] > 0}]
          /\ guards' = [guards EXCEPT ![r] =
                           {e \in Threads \X Entries :
                               held[e[1]][e[2]] # "none" /\ snap_ptr[e[1]][e[2]] = p}]
          /\ RetireBody(t, p, "flag", r, <<>>)
    /\ UNCHANGED <<in_cs, snap_ptr, conflicts, primary, nodes>>
    /\ UNCHANGED <<depth, held, executed>>
    /\ UNCHANGED <<blockVars, ret, testVars, cell, calls, stored, is_dropped, fields, ctxVars>>

\* the addresses the tests protect and retire
TestPtrs == {1}

\* no allocation block: the pointers given to the reclaimer are only addresses
Init ==
    /\ strong = [b \in Blocks |-> 0]
    /\ weak = [b \in Blocks |-> 0]
    /\ arcs = [t \in Threads |-> [b \in Blocks |-> 0]]
    /\ weaks = [t \in Threads |-> [b \in Blocks |-> 0]]
    /\ dropped = [b \in Blocks |-> 0]
    /\ freed = [b \in Blocks |-> 0]
    /\ pool = [b \in Blocks |-> [k \in Kinds |-> 0]]
    /\ zeroSeen = [b \in Blocks |-> FALSE]
    /\ cell = [c \in Cells |-> 0]
    /\ calls = 0
    /\ stored = cell
    /\ is_dropped = FALSE
    /\ InitCtx
    /\ fields = [b \in Blocks |-> <<>>]
    /\ InitThreads
    /\ InitTest
    /\ InitSmr

Next ==
    \/ \E t \in Threads : ScanSlot(t)
    \/ \E t \in Threads : ScanSnapshot(t)
    \/ \E t \in Threads : Insert(t)
    \/ \E t \in Threads : InsertLink(t)
    \/ \E t \in Threads : DecNode(t)
    \/ \E t \in Threads : DecBatch(t)
    \/ \E t \in Threads : DetachHead(t)
    \/ \E t \in Threads : RunFn(t)
    \/ \E t \in Threads : BeginCriticalSection(t, MaxDepth)
    \/ \E t \in Threads : EndCriticalSection(t)
    \/ \E t \in Threads, p \in TestPtrs : RetireFlag(t, p)

\* begin_critical_section, end_critical_section and retire, sections nesting
Spec == Init /\ [][Next]_vars

NextProtect ==
    \/ \E t \in Threads : ScanSlot(t)
    \/ \E t \in Threads : ScanSnapshot(t)
    \/ \E t \in Threads : Insert(t)
    \/ \E t \in Threads : InsertLink(t)
    \/ \E t \in Threads : DecNode(t)
    \/ \E t \in Threads : DecBatch(t)
    \/ \E t \in Threads : DetachHead(t)
    \/ \E t \in Threads : RunFn(t)
    \/ \E t \in Threads : BeginCriticalSection(t, 1)
    \/ \E t \in Threads : EndCriticalSection(t)
    \/ \E t \in Threads, p \in TestPtrs : ProtectPtr(t, p, SNAPSHOT_PTRS_PER_NODE)
    \/ \E t \in Threads, k \in Entries : Release(t, k)
    \/ \E t \in Threads, p \in TestPtrs : RetireFlag(t, p)

\* the same with protect_ptr and release, sections not nesting
SpecProtect == Init /\ [][NextProtect]_vars

\* C1: no closure has run while a critical section that was open when its
\* retire was called is still open.
C1_RunsAfterSections ==
    \A r \in RetireIds : executed[r] > 0 => blockers[r] = {}

\* C2: no closure has run while a handle on its pointer, obtained from
\* protect_ptr before its retire was called, is still unreleased.
C2_RunsAfterRelease ==
    \A r \in RetireIds : executed[r] > 0 => guards[r] = {}

\* the batch of a retired closure has been published and waits on the
\* conflict list of a handle that was held when retire was called
C2_Witness ==
    \E r \in RetireIds : \E e \in guards[r] :
        /\ executed[r] = 0
        /\ conflicts[e[1]][e[2]] # 0
        /\ \E j \in 1..Len(batches[nodes[conflicts[e[1]][e[2]]].batch].fns) :
              batches[nodes[conflicts[e[1]][e[2]]].batch].fns[j] = <<retired[r], "flag", r>>

----------------------------------------------------------------------------
(* Snapshot (smart_ptrs.rs) with StandardReclaimer as the reclaimer *)

\* From<&Arc> for Snapshot: Snapshot::clone_from_raw -> R::protect_ptr
SnapshotFromArc(t, b) ==
    /\ Idle(t)
    /\ arcs[t][b] > 0
    /\ CanProtect(t, MaxSnap)
    /\ protect_ptr(t, b, "from_arc")
    /\ UNCHANGED <<in_cs, batch, cap, conflicts, primary, nodes, batches>>
    /\ UNCHANGED <<depth, retired, blockers, guards, executed>>
    /\ UNCHANGED <<blockVars, tasks, ret, testVars, cell, calls, stored, is_dropped, fields, ctxVars>>

\* Clone for Snapshot: clone_from_raw(as_ptr(self)) -> R::protect_ptr; the
\* clone is told apart by where the first Snapshot of its line came from
SnapshotClone(t, k) ==
    /\ Idle(t)
    /\ held[t][k] # "none"
    /\ CanProtect(t, MaxSnap)
    /\ protect_ptr(t, snap_ptr[t][k],
                   IF held[t][k] \in {"from_arc", "clone"} THEN "clone" ELSE "clone_of_upgrade")
    /\ UNCHANGED <<in_cs, batch, cap, conflicts, primary, nodes, batches>>
    /\ UNCHANGED <<depth, retired, blockers, guards, executed>>
    /\ UNCHANGED <<blockVars, tasks, ret, testVars, cell, calls, stored, is_dropped, fields, ctxVars>>

\* Weak::upgrade::<Snapshot>: Snapshot::try_clone_from_raw up to
\* let handle = R::protect_ptr(ptr); strong.load() follows
WeakUpgradeSnapshot(t, b) ==
    /\ Idle(t)
    /\ weaks[t][b] > 0
    /\ CanProtect(t, MaxSnap)
    /\ protect_ptr(t, b, "none")
    /\ Start(t, << <<"load", b, 0, 0>>, <<"try_clone_snapshot", b, NextEntry(t), 0>> >>)
    /\ UNCHANGED <<in_cs, batch, cap, conflicts, primary, nodes, batches>>
    /\ UNCHANGED <<depth, retired, blockers, guards, executed>>
    /\ UNCHANGED <<blockVars, ret, testVars, cell, calls, stored, is_dropped, fields, ctxVars>>

\* Snapshot::try_clone_from_raw after strong.load(): on 0 handle.release()
\* and None, otherwise Some(Snapshot)
TryCloneSnapshot(t) ==
    /\ At(t, "try_clone_snapshot")
    /\ Returned(t, "load")
    /\ LET k == Top(t)[3]
       IN IF ret[t][2] = 0
          THEN /\ snap_ptr' = [snap_ptr EXCEPT ![t][k] = 0]
               /\ Continue(t, << <<"detach_head", t, k, 0>> >>)
               /\ UNCHANGED held
          ELSE /\ held' = [held EXCEPT ![t][k] = "upgrade"]
               /\ Continue(t, <<>>)
               /\ UNCHANGED snap_ptr
    /\ ClearRet(t)
    /\ UNCHANGED <<in_cs, batch, cap, conflicts, primary, nodes, batches>>
    /\ UNCHANGED <<depth, retired, blockers, guards, executed>>
    /\ UNCHANGED <<blockVars, testVars, cell, calls, stored, is_dropped, fields, ctxVars>>

\* Drop for Arc with R = StandardReclaimer: retire(ptr, get_drop_fn::<T, R, true>())
ArcDropRetire(t, b) ==
    /\ Idle(t)
    /\ arcs[t][b] > 0
    /\ arcs' = [arcs EXCEPT ![t][b] = @ - 1]
    /\ RetireBody(t, b, "strong", 0, <<>>)
    /\ UNCHANGED <<in_cs, snap_ptr, conflicts, primary, nodes>>
    /\ UNCHANGED <<strong, zeroSeen, weak, dropped, freed, weaks, pool, asserted>>
    /\ UNCHANGED <<ret, testVars, smrObs, cell, calls, stored, is_dropped, fields, ctxVars>>

\* Block 1 with an Arc held by every thread and a Weak held by thread 1
InitSnap ==
    /\ arcs = [t \in Threads |-> [b \in Blocks |-> IF b = 1 THEN 1 ELSE 0]]
    /\ weaks = [t \in Threads |-> [b \in Blocks |-> IF b = 1 /\ t = 1 THEN 1 ELSE 0]]
    /\ strong = [b \in Blocks |-> IF b = 1 THEN NThreads ELSE 0]
    /\ weak = [b \in Blocks |-> IF b = 1 THEN 2 ELSE 0]
    /\ dropped = [b \in Blocks |-> 0]
    /\ freed = [b \in Blocks |-> 0]
    /\ pool = [b \in Blocks |-> [k \in Kinds |-> 0]]
    /\ zeroSeen = [b \in Blocks |-> FALSE]
    /\ cell = [c \in Cells |-> 0]
    /\ calls = 0
    /\ stored = cell
    /\ is_dropped = FALSE
    /\ InitCtx
    /\ fields = [b \in Blocks |-> <<>>]
    /\ InitThreads
    /\ InitTest
    /\ InitSmr

\* the threads that take Snapshots; the others only hold and drop their Arc
Readers == {1}

NextSnap ==
    \/ \E t \in Threads : Decrement(t)
    \/ \E t \in Threads : DecrementCas(t)
    \/ \E t \in Threads : Load(t)
    \/ \E t \in Threads : LoadCas(t)
    \/ \E t \in Threads, b \in Blocks : ArcDropRetire(t, b)
    \/ \E t \in Threads, b \in Blocks : WeakDrop(t, b)
    \/ \E t \in Threads : StrongDrop(t)
    \/ \E t \in Threads : WeakDropFn(t)
    \/ \E t \in Threads : ReclaimerStep(t)
    \/ \E t \in Readers, b \in Blocks : SnapshotFromArc(t, b)
    \/ \E t \in Readers, k \in Entries : SnapshotClone(t, k)
    \/ \E t \in Readers, b \in Blocks : WeakUpgradeSnapshot(t, b)
    \/ \E t \in Threads : TryCloneSnapshot(t)
    \/ \E t \in Threads, k \in Entries : Release(t, k)

\* Arc, Weak and Snapshot handles on block 1, dropped, upgraded and cloned
SpecSnap == InitSnap /\ [][NextSnap]_vars

\* C8: no Snapshot that Weak::upgrade returned is held on a block whose value
\* has been dropped.
C8_UpgradeProtects ==
    \A t \in Threads, k \in Entries :
        held[t][k] = "upgrade" => dropped[snap_ptr[t][k]] = 0

\* C9: no Snapshot made by Snapshot::clone, in a line of clones that starts at
\* a Snapshot taken from an Arc, is held on a block whose value has been
\* dropped.
C9_CloneProtects ==
    \A t \in Threads, k \in Entries :
        held[t][k] = "clone" => dropped[snap_ptr[t][k]] = 0

----------------------------------------------------------------------------
(* AtomicArc (atomics.rs); the blocks it points to are those of             *)
(* std::sync::Arc, whose strong count is a plain atomic word                *)

\* the ptr of a cell that has been dropped, or not created yet
NoCell == -1

Live(c) == cell[c] # NoCell
DeadCells == {c \in Cells : cell[c] = NoCell}

\* the steps that access the ptr of a cell
CellOps == {"ptr_load", "store_swap", "cas", "clone_load",
            "weak_ptr_load", "weak_store_swap", "upgrade_load",
            "weak_cas", "weak_clone_load"}

\* some call on cell c is in progress
InUse(c) ==
    \E u \in Threads : \E j \in 1..Len(tasks[u]) :
        tasks[u][j][1] \in CellOps /\ tasks[u][j][2] = c

\* thread t holds an Arc or a Snapshot on b
Holds(t, b) ==
    \/ arcs[t][b] > 0
    \/ \E k \in Entries : held[t][k] # "none" /\ snap_ptr[t][k] = b

\* user code drops an Arc it got from a cell
StdArcDrop(t, b) ==
    /\ Idle(t)
    /\ arcs[t][b] > 0
    /\ arcs' = [arcs EXCEPT ![t][b] = @ - 1]
    /\ drop_arc(b)
    /\ UNCHANGED <<zeroSeen, tasks, ret, weaks, pool, asserted, testVars, smrVars, smrObs, cell, calls, stored, is_dropped, fields, ctxVars>>

\* R::protect(): the guard begins a critical section
protect(t) ==
    /\ in_cs' = [in_cs EXCEPT ![t] = TRUE]
    /\ depth' = [depth EXCEPT ![t] = @ + 1]

\* the guard goes out of scope: end_critical_section
GuardDrop(t) ==
    /\ At(t, "guard_drop")
    /\ in_cs' = [in_cs EXCEPT ![t] = FALSE]
    /\ depth' = [depth EXCEPT ![t] = @ - 1]
    /\ Continue(t, << <<"detach_head", t, 0, 0>> >>)
    /\ ClearRet(t)
    /\ UNCHANGED <<batch, cap, snap_ptr, conflicts, primary, nodes, batches>>
    /\ UNCHANGED <<held, retired, blockers, guards, executed>>
    /\ UNCHANGED <<blockVars, testVars, cell, calls, stored, is_dropped, fields, ctxVars>>

\* the smart pointer types a call may return
Returns == {"arc", "snapshot"}

\* room for one more handle of type V in the model
Room(t, V) ==
    IF V = "arc" THEN \A b \in Blocks : arcs[t][b] < MaxHandles
    ELSE CanProtect(t, SNAPSHOT_PTRS_PER_NODE)

\* AtomicArc::load::<V>: let _guard = R::protect()
AtomicArcLoad(t, c, V) ==
    /\ Idle(t)
    /\ calls < MaxCalls
    /\ calls' = calls + 1
    /\ Live(c)
    /\ Room(t, V)
    /\ protect(t)
    /\ Start(t, << <<"ptr_load", c, V, "load">>, <<"guard_drop", 0, 0, 0>> >>)
    /\ UNCHANGED <<batch, cap, snap_ptr, conflicts, primary, nodes, batches>>
    /\ UNCHANGED <<held, retired, blockers, guards, executed>>
    /\ UNCHANGED <<blockVars, ret, testVars, cell, stored, is_dropped, fields, ctxVars>>

\* load: let ptr = self.ptr.load(Acquire); None when it is null
PtrLoad(t) ==
    /\ At(t, "ptr_load")
    /\ LET ptr == cell[Top(t)[2]]
       IN IF ptr = 0
          THEN Continue(t, <<>>)
          ELSE Continue(t, << <<"clone_from_raw_v", ptr, Top(t)[3], Top(t)[4]>> >>)
    /\ UNCHANGED <<blockVars, ret, testVars, smrVars, smrObs, cell, calls, stored, is_dropped, fields, ctxVars>>

\* V::clone_from_raw(ptr): for Arc the strong count is incremented, for
\* Snapshot R::protect_ptr(ptr)
CloneFromRawV(t) ==
    /\ At(t, "clone_from_raw_v")
    /\ LET ptr == Top(t)[2]
       IN IF Top(t)[3] = "arc"
          THEN /\ strong' = [strong EXCEPT ![ptr] = wrapping_add(@, 1)]
               /\ arcs' = [arcs EXCEPT ![t][ptr] = @ + 1]
               /\ UNCHANGED <<snap_ptr, held>>
          ELSE /\ protect_ptr(t, ptr, Top(t)[4])
               /\ UNCHANGED <<strong, arcs>>
    /\ Continue(t, <<>>)
    /\ UNCHANGED <<in_cs, batch, cap, conflicts, primary, nodes, batches>>
    /\ UNCHANGED <<depth, retired, blockers, guards, executed>>
    /\ UNCHANGED <<zeroSeen, weak, dropped, freed, weaks, pool, asserted, ret, testVars, cell, calls, stored, is_dropped, fields, ctxVars>>

\* a swap that replaces only a pointer that is not null
swap_retire_nonnull(t, c, new, rest) ==
    /\ cell' = [cell EXCEPT ![c] = IF cell[c] # 0 THEN new ELSE 0]
    /\ IF cell[c] # 0
       THEN RetireBody(t, cell[c], "arc", 0, rest)
       ELSE /\ tasks' = [tasks EXCEPT ![t] = rest]
            /\ UNCHANGED <<batch, cap, batches>>

\* self.ptr.swap(new) of store by thread t, which goes on with rest; when the
\* pointer before is not null, R::retire(before, get_drop_fn::<T, true>())
swap_retire(t, c, new, rest) ==
    /\ cell' = [cell EXCEPT ![c] = new]
    /\ IF cell[c] # 0
       THEN RetireBody(t, cell[c], "arc", 0, rest)
       ELSE /\ tasks' = [tasks EXCEPT ![t] = rest]
            /\ UNCHANGED <<batch, cap, batches>>

\* an increment that is left out
increment_strong_count_none(p) == strong

\* Arc::increment_strong_count(ptr) of std::sync::Arc: the strong words after it
increment_strong_count(p) == [strong EXCEPT ![p] = wrapping_add(@, 1)]

\* AtomicArc::store(new): new = 0 is None, otherwise the pointer of an Arc or
\* a Snapshot that t holds, whose strong count is incremented first
AtomicArcStore(t, c, new) ==
    /\ Idle(t)
    /\ calls < MaxCalls
    /\ calls' = calls + 1
    /\ Live(c)
    /\ new # 0 => Holds(t, new)
    /\ IF new = 0
       THEN /\ swap_retire(t, c, 0, << <<"store_return", cell[c], 0, 0>> >>)
            /\ stored' = [stored EXCEPT ![c] = 0]
            /\ UNCHANGED strong
       ELSE /\ strong' = increment_strong_count(new)
            /\ Start(t, << <<"store_swap", c, new, 0>> >>)
            /\ UNCHANGED <<batch, cap, batches, cell, stored>>
    /\ UNCHANGED <<in_cs, snap_ptr, conflicts, primary, nodes>>
    /\ UNCHANGED <<zeroSeen, weak, dropped, freed, arcs, weaks, pool, asserted>>
    /\ UNCHANGED <<ret, testVars, smrObs, is_dropped, fields, ctxVars>>

\* store: let before = self.ptr.swap(ptr, AcqRel), and the retire of before
StoreSwap(t) ==
    /\ At(t, "store_swap")
    /\ swap_retire(t, Top(t)[2], Top(t)[3],
                   << <<"store_return", cell[Top(t)[2]], 0, 0>> >> \o Tail(tasks[t]))
    /\ stored' = [stored EXCEPT ![Top(t)[2]] = Top(t)[3]]
    /\ UNCHANGED <<in_cs, snap_ptr, conflicts, primary, nodes>>
    /\ UNCHANGED <<blockVars, ret, testVars, smrObs>>
    /\ UNCHANGED <<calls, is_dropped, fields, ctxVars>>

\* store returns; before was the pointer its swap displaced
StoreReturn(t) ==
    /\ At(t, "store_return")
    /\ Continue(t, <<>>)
    /\ UNCHANGED <<blockVars, ret, testVars, smrVars, smrObs, cell, calls, stored, is_dropped, fields, ctxVars>>

\* AtomicArc::compare_exchange::<C, N, V>(current, new): cur and new are null
\* or the pointer of a handle t holds; let guard = R::protect()
AtomicArcCompareExchange(t, c, cur, new, V) ==
    /\ Idle(t)
    /\ calls < MaxCalls
    /\ calls' = calls + 1
    /\ Live(c)
    /\ cur # 0 => Holds(t, cur)
    /\ new # 0 => Holds(t, new)
    /\ Room(t, V)
    /\ protect(t)
    /\ Start(t, << <<"cas", c, <<cur, new>>, V>> >>)
    /\ UNCHANGED <<batch, cap, snap_ptr, conflicts, primary, nodes, batches>>
    /\ UNCHANGED <<held, retired, blockers, guards, executed>>
    /\ UNCHANGED <<blockVars, ret, testVars, cell, stored, is_dropped, fields, ctxVars>>

\* a compare_exchange that takes a null current to match any pointer
compare_exchange_ok_null(before, c) == before = c \/ c = 0

\* AtomicPtr::compare_exchange(c, n): Ok when the pointer before is c
compare_exchange_ok(before, c) == before = c

\* an Err arm that reads the cell again for the value it returns
cas_err_reload(c, before, V) == << <<"ptr_load", c, V, "cas">> >>

\* the Err(before) arm: Err(None) when before is null, otherwise
\* Err(Some(V::clone_from_raw(before)))
cas_err(c, before, V) ==
    IF before # 0 THEN << <<"clone_from_raw_v", before, V, "cas">> >> ELSE <<>>

\* compare_exchange with the retirement issued before drop(guard)
cas_steps_early_retire(c, n, before, ok, V) ==
    LET replaced == n # 0 /\ n # before
    IN IF ok
       THEN (IF replaced THEN << <<"increment_strong_count", n, 0, 0>> >> ELSE <<>>)
            \o (IF replaced /\ before # 0
                THEN << <<"retire", before, "arc", 0>> >> ELSE <<>>)
            \o << <<"guard_drop", 0, 0, 0>> >>
       ELSE cas_err(c, before, V) \o << <<"guard_drop", 0, 0, 0>> >>

\* the steps AtomicArc::compare_exchange has left after the exchange: in the
\* Ok arm the increment of new, drop(guard) and the retirement of before, in
\* the Err arm the clone of before and drop(guard)
cas_steps(c, n, before, ok, V) ==
    LET replaced == n # 0 /\ n # before
    IN IF ok
       THEN (IF replaced THEN << <<"increment_strong_count", n, 0, 0>> >> ELSE <<>>)
            \o << <<"guard_drop", 0, 0, 0>> >>
            \o (IF replaced /\ before # 0
                THEN << <<"retire", before, "arc", 0>> >> ELSE <<>>)
       ELSE cas_err(c, before, V) \o << <<"guard_drop", 0, 0, 0>> >>

\* compare_exchange: self.ptr.compare_exchange(c, n, AcqRel, Acquire) and the
\* steps its result leaves: Ok, an increment of n and a retire of before
\* when n is neither null nor before; Err, a clone of before unless it is null
Cas(t) ==
    /\ At(t, "cas")
    /\ LET c == Top(t)[2]
           cur == Top(t)[3][1]
           n == Top(t)[3][2]
           before == cell[c]
       IN IF compare_exchange_ok(before, cur)
          THEN /\ cell' = [cell EXCEPT ![c] = n]
               /\ stored' = [stored EXCEPT ![c] = n]
               /\ SetRet(t, "compare_exchange", "Ok", cur, before)
               /\ Continue(t, cas_steps(c, n, before, TRUE, Top(t)[4]))
          ELSE /\ UNCHANGED <<cell, stored>>
               /\ SetRet(t, "compare_exchange", "Err", cur, before)
               /\ Continue(t, cas_steps(c, n, before, FALSE, Top(t)[4]))
    /\ UNCHANGED <<blockVars, testVars, smrVars, smrObs>>
    /\ UNCHANGED <<calls, is_dropped, fields, ctxVars>>

\* Arc::increment_strong_count(ptr)
IncrementStrongCount(t) ==
    /\ At(t, "increment_strong_count")
    /\ strong' = increment_strong_count(Top(t)[2])
    /\ Continue(t, <<>>)
    /\ UNCHANGED <<zeroSeen, ret, ctrFrame, testVars, smrVars, smrObs, cell, calls, stored, is_dropped, fields, ctxVars>>

\* Clone for AtomicArc: let _guard = R::protect()
AtomicArcClone(t, c) ==
    /\ Idle(t)
    /\ calls < MaxCalls
    /\ calls' = calls + 1
    /\ Live(c)
    /\ DeadCells # {}
    /\ protect(t)
    /\ Start(t, << <<"clone_load", c, 0, 0>> >>)
    /\ UNCHANGED <<batch, cap, snap_ptr, conflicts, primary, nodes, batches>>
    /\ UNCHANGED <<held, retired, blockers, guards, executed>>
    /\ UNCHANGED <<blockVars, ret, testVars, cell, stored, is_dropped, fields, ctxVars>>

\* clone: let ptr = self.ptr.load(Acquire), incremented when it is not null
CloneLoad(t) ==
    /\ At(t, "clone_load")
    /\ LET ptr == cell[Top(t)[2]]
       IN Continue(t,
             (IF ptr # 0 THEN << <<"increment_strong_count", ptr, 0, 0>> >> ELSE <<>>)
             \o << <<"guard_drop", 0, 0, 0>>, <<"clone_return", ptr, 0, 0>> >>)
    /\ UNCHANGED <<blockVars, ret, testVars, smrVars, smrObs, cell, calls, stored, is_dropped, fields, ctxVars>>

\* clone returns Self { ptr: AtomicPtr::new(ptr) }: a new cell is in use
CloneReturn(t) ==
    /\ At(t, "clone_return")
    /\ DeadCells # {}
    /\ cell' = [cell EXCEPT ![MinOf(DeadCells)] = Top(t)[2]]
    /\ stored' = [stored EXCEPT ![MinOf(DeadCells)] = Top(t)[2]]
    /\ Continue(t, <<>>)
    /\ UNCHANGED <<blockVars, ret, testVars, smrVars, smrObs>>
    /\ UNCHANGED <<calls, is_dropped, fields, ctxVars>>

\* Drop for AtomicArc, by the thread that owns the cell when no call on it
\* is in progress: retire of its pointer
AtomicArcDrop(t, c) ==
    /\ Idle(t)
    /\ calls < MaxCalls
    /\ calls' = calls + 1
    /\ Live(c)
    /\ ~InUse(c)
    /\ cell' = [cell EXCEPT ![c] = NoCell]
    /\ stored' = [stored EXCEPT ![c] = NoCell]
    /\ IF cell[c] # 0
       THEN RetireBody(t, cell[c], "arc", 0, <<>>)
       ELSE UNCHANGED <<tasks, batch, cap, batches>>
    /\ UNCHANGED <<in_cs, snap_ptr, conflicts, primary, nodes>>
    /\ UNCHANGED <<blockVars, ret, testVars, smrObs, is_dropped, fields, ctxVars>>

\* AtomicArc::new(Some(x)): cell 1 owns the only strong count of block 1; the
\* last thread holds the only Arc of every other block
InitArc ==
    /\ cell = [c \in Cells |-> IF c = 1 THEN 1 ELSE NoCell]
    /\ calls = 0
    /\ stored = cell
    /\ is_dropped = FALSE
    /\ InitCtx
    /\ fields = [b \in Blocks |-> <<>>]
    /\ strong = [b \in Blocks |-> 1]
    /\ weak = [b \in Blocks |-> 1]
    /\ arcs = [t \in Threads |-> [b \in Blocks |-> IF t = NThreads /\ b > 1 THEN 1 ELSE 0]]
    /\ weaks = [t \in Threads |-> [b \in Blocks |-> 0]]
    /\ dropped = [b \in Blocks |-> 0]
    /\ freed = [b \in Blocks |-> 0]
    /\ pool = [b \in Blocks |-> [k \in Kinds |-> 0]]
    /\ zeroSeen = [b \in Blocks |-> FALSE]
    /\ InitThreads
    /\ InitTest
    /\ InitSmr

NextArc ==
    \/ \E t \in Threads, c \in Cells, V \in Returns : AtomicArcLoad(t, c, V)
    \/ \E t \in Threads : PtrLoad(t)
    \/ \E t \in Threads : CloneFromRawV(t)
    \/ \E t \in Threads : GuardDrop(t)
    \/ \E t \in Threads, c \in Cells, new \in {0} \cup Blocks : AtomicArcStore(t, c, new)
    \/ \E t \in Threads : StoreSwap(t)
    \/ \E t \in Threads : StoreReturn(t)
    \/ \E t \in Threads, c \in Cells, cur \in {0} \cup Blocks, new \in {0} \cup Blocks,
          V \in Returns : AtomicArcCompareExchange(t, c, cur, new, V)
    \/ \E t \in Threads : Cas(t)
    \/ \E t \in Threads : IncrementStrongCount(t)
    \/ \E t \in Threads, c \in Cells : AtomicArcClone(t, c)
    \/ \E t \in Threads : CloneLoad(t)
    \/ \E t \in Threads : CloneReturn(t)
    \/ \E t \in Threads, c \in Cells : AtomicArcDrop(t, c)
    \/ \E t \in Threads, b \in Blocks : StdArcDrop(t, b)
    \/ \E t \in Threads, k \in Entries : Release(t, k)
    \/ \E t \in Threads : ReclaimerStep(t)

\* threads sharing AtomicArc cells
SpecArc == InitArc /\ [][NextArc]_vars

\* C3: no Arc or Snapshot that load returned, or that the Err of
\* compare_exchange carried, is held on a block whose value has been dropped.
C3_HandlesAlive ==
    \A t \in Threads :
        /\ \A b \in Blocks : arcs[t][b] > 0 => dropped[b] = 0
        /\ \A k \in Entries : held[t][k] # "none" => dropped[snap_ptr[t][k]] = 0

\* a Snapshot that load returned is held on a block no cell points to any
\* more; the block's last strong count is the one a published batch, waiting
\* on the Snapshot's conflicts list, is to release
C3_Witness ==
    \E t \in Threads, k \in Entries :
        /\ held[t][k] = "load"
        /\ conflicts[t][k] # 0
        /\ strong[snap_ptr[t][k]] = 1
        /\ dropped[snap_ptr[t][k]] = 0
        /\ \A c \in Cells : cell[c] # snap_ptr[t][k]
        /\ \E j \in 1..Len(batches[nodes[conflicts[t][k]].batch].fns) :
              batches[nodes[conflicts[t][k]].batch].fns[j] = <<snap_ptr[t][k], "arc", 0>>

----------------------------------------------------------------------------
(* Properties of the calls on AtomicArc (SpecArc) *)

\* the steps of ts that are the call op on pointer p
StepsOn(ts, op, p) == {j \in 1..Len(ts) : ts[j][1] = op /\ ts[j][2] = p}

\* C11: a compare_exchange that succeeds with new different from current
\* increments new's strong count once unless new is null, and retires the
\* displaced pointer once unless it is null, also when new is null; with new
\* and current the same block it changes no count and retires nothing.
C11_CasAccounting ==
    [][\A t \in Threads :
          (Cas(t) /\ ret'[t][2] = "Ok") =>
              LET n == Top(t)[3][2]
                  before == cell[Top(t)[2]]
                  incs == StepsOn(tasks'[t], "increment_strong_count", n)
                  rets == StepsOn(tasks'[t], "retire", before)
              IN IF n = before
                 THEN tasks'[t] = << <<"guard_drop", 0, 0, 0>> >>
                 ELSE /\ Cardinality(incs) = (IF n # 0 THEN 1 ELSE 0)
                      /\ Cardinality(rets) = (IF before # 0 THEN 1 ELSE 0)]_vars

\* C12: compare_exchange(current, new) returns Ok and stores new's pointer
\* exactly when the cell's pointer equals current's at the atomic step;
\* otherwise the cell is unchanged and the Err carries a handle to the pointer
\* that step observed (no handle when it is null), whatever the cell holds
\* by the time the handle is made.
C12_CasResult ==
    /\ [][\A t \in Threads :
            Cas(t) =>
                LET c == Top(t)[2]
                    cur == Top(t)[3][1]
                    n == Top(t)[3][2]
                IN IF cell[c] = cur
                   THEN ret'[t][2] = "Ok" /\ cell' = [cell EXCEPT ![c] = n]
                   ELSE ret'[t][2] = "Err" /\ ret'[t][4] = cell[c] /\ cell' = cell]_vars
    /\ [][\A t \in Threads :
            (CloneFromRawV(t) /\ Top(t)[4] = "cas") =>
                LET p == ret[t][4]
                    k == NextEntry(t)
                IN /\ ret[t][2] = "Err"
                   /\ p # 0
                   /\ IF Top(t)[3] = "arc"
                      THEN arcs' = [arcs EXCEPT ![t][p] = @ + 1]
                      ELSE snap_ptr'[t][k] = p /\ held'[t][k] = "cas"]_vars
    /\ [][\A t \in Threads :
            (GuardDrop(t) /\ Returned(t, "compare_exchange")) =>
                LET p == ret[t][4]
                    made == \/ arcs[t] # arcs'[t] \/ held[t] # held'[t]
                IN /\ ~made
                   /\ (ret[t][2] = "Err" /\ p # 0) => Holds(t, p)]_vars

\* a compare_exchange has failed and its Err carries a handle on the pointer
\* it observed, which no cell holds any more
C12_Witness ==
    \E t \in Threads :
        /\ At(t, "guard_drop")
        /\ Returned(t, "compare_exchange")
        /\ ret[t][2] = "Err"
        /\ ret[t][4] # 0
        /\ Holds(t, ret[t][4])
        /\ \A c \in Cells : cell[c] # ret[t][4]

\* C13: on a cell that holds null, load returns None and makes no handle,
\* store(None) changes no count and retires nothing, and
\* compare_exchange(None, new) succeeds exactly when the cell holds null at
\* its atomic step.
C13_NullCell ==
    /\ [][\A t \in Threads :
            (PtrLoad(t) /\ Top(t)[4] = "load" /\ cell[Top(t)[2]] = 0) =>
                /\ tasks'[t] = << <<"guard_drop", 0, 0, 0>> >>
                /\ UNCHANGED <<strong, weak, arcs, held, snap_ptr>>]_vars
    /\ [][\A t \in Threads, c \in Cells :
            (AtomicArcStore(t, c, 0) /\ cell[c] = 0) =>
                /\ tasks'[t] = << <<"store_return", 0, 0, 0>> >>
                /\ UNCHANGED <<strong, weak, cell, batch, batches>>]_vars
    /\ [][\A t \in Threads :
            (Cas(t) /\ Top(t)[3][1] = 0) =>
                (ret'[t][2] = "Ok" <=> cell[Top(t)[2]] = 0)]_vars

\* a compare_exchange(None, new) with new not null has succeeded on a cell
\* that held null
C13_Witness ==
    \E t \in Threads, c \in Cells :
        /\ Returned(t, "compare_exchange")
        /\ ret[t] = <<"compare_exchange", "Ok", 0, 0>>
        /\ cell[c] > 0
        /\ At(t, "increment_strong_count")
        /\ Top(t)[2] = cell[c]

\* C14: a load returns a handle to the block the last write to the cell was
\* given (store(Some(x)): x), so store(Some(x)) and then load() with no write
\* between them returns a handle to x's block, and so does every further load
\* until the next write.
C14_StoreLoad ==
    /\ [][\A t \in Threads :
            (PtrLoad(t) /\ Top(t)[4] = "load") =>
                LET x == stored[Top(t)[2]]
                IN tasks'[t] =
                      (IF x # 0 THEN << <<"clone_from_raw_v", x, Top(t)[3], "load">> >>
                       ELSE <<>>) \o << <<"guard_drop", 0, 0, 0>> >>]_vars
    /\ [][\A t \in Threads :
            (CloneFromRawV(t) /\ Top(t)[4] = "load") =>
                LET x == Top(t)[2]
                    k == NextEntry(t)
                IN IF Top(t)[3] = "arc"
                   THEN arcs' = [arcs EXCEPT ![t][x] = @ + 1]
                   ELSE snap_ptr'[t][k] = x /\ held'[t][k] = "load"]_vars

\* the only calls so far are a store(Some(x)) of block 2 on cell 1, whose
\* swap displaced block 1, and a load on cell 1 that is making its handle on
\* block 2
C14_Witness ==
    \E t \in Threads, u \in Threads :
        /\ calls = 2
        /\ StepsOn(tasks[u], "store_return", 1) # {}
        /\ cell[1] = 2
        /\ At(t, "clone_from_raw_v")
        /\ Top(t)[4] = "load"
        /\ Top(t)[2] = 2

----------------------------------------------------------------------------
(* Drop for StandardReclaimer *)

\* a clean-up that leaves the local batch of the slot alone
drop_slot_lists_only(s) ==
    << <<"detach_head", s, 0, 0>> >>
    \o [k \in 1..Len(snap_ptr[s]) |-> <<"detach_head", s, k, 0>>]

\* the body of `for slot in self.slots.iter(SeqCst)` for slot s:
\* drop(slot.batch.take()); slot.primary_list.detach_head(); and
\* snapshot_ptr.conflicts.detach_head() for every entry of slot.snapshots
drop_slot(s) ==
    << <<"take_batch", s, 0, 0>>, <<"detach_head", s, 0, 0>> >>
    \o [k \in 1..Len(snap_ptr[s]) |-> <<"detach_head", s, k, 0>>]

RECURSIVE drop_slots(_)
\* the clean-up of the slots s..NThreads, in the order of the slot table
drop_slots(s) == IF s > NThreads THEN <<>> ELSE drop_slot(s) \o drop_slots(s + 1)

\* drop(r) by thread t: r is borrowed by nobody, so no call on it is in
\* progress; self.is_dropped.set(true), then the clean-up of every slot
ReclaimerDrop(t) ==
    /\ ~is_dropped
    /\ \A u \in Threads : Idle(u)
    /\ is_dropped' = TRUE
    /\ Start(t, drop_slots(1))
    /\ UNCHANGED <<blockVars, ret, testVars, smrVars, smrObs, cell, calls, stored, fields, ctxVars>>

\* drop(slot.batch.take()): the slot gets Batch::default() and Drop for Batch
\* calls the functions of the batch taken
TakeBatch(t) ==
    /\ At(t, "take_batch")
    /\ LET s == Top(t)[2]
       IN /\ batch' = [batch EXCEPT ![s] = <<>>]
          /\ cap' = [cap EXCEPT ![s] = 0]
          /\ Continue(t, FunctionTasks(batch[s]))
    /\ UNCHANGED <<in_cs, snap_ptr, conflicts, primary, nodes, batches>>
    /\ UNCHANGED <<blockVars, ret, testVars, smrObs, cell, calls, stored, is_dropped, fields, ctxVars>>

\* the calls of NextProtect on a reclaimer that has not been dropped, the
\* steps of the calls, and the drop of the reclaimer
NextDrop ==
    \/ \E t \in Threads : ScanSlot(t)
    \/ \E t \in Threads : ScanSnapshot(t)
    \/ \E t \in Threads : Insert(t)
    \/ \E t \in Threads : InsertLink(t)
    \/ \E t \in Threads : DecNode(t)
    \/ \E t \in Threads : DecBatch(t)
    \/ \E t \in Threads : DetachHead(t)
    \/ \E t \in Threads : RunFn(t)
    \/ \E t \in Threads : TakeBatch(t)
    \/ \E t \in Threads : ~is_dropped /\ BeginCriticalSection(t, 1)
    \/ \E t \in Threads : ~is_dropped /\ EndCriticalSection(t)
    \/ \E t \in Threads, p \in TestPtrs :
          ~is_dropped /\ ProtectPtr(t, p, SNAPSHOT_PTRS_PER_NODE)
    \/ \E t \in Threads, k \in Entries : ~is_dropped /\ Release(t, k)
    \/ \E t \in Threads, p \in TestPtrs : ~is_dropped /\ RetireFlag(t, p)
    \/ \E t \in Threads : ReclaimerDrop(t)

\* a reclaimer that is used and then dropped
SpecDrop == Init /\ [][NextDrop]_vars

\* C15: no closure given to retire is called twice, and once the drop of the
\* reclaimer has returned every closure given to retire has been called once.
C15_ExactlyOnce ==
    \A r \in RetireIds :
        /\ executed[r] <= 1
        /\ (is_dropped /\ (\A t \in Threads : Idle(t)) /\ retired[r] # 0) => executed[r] = 1

\* the drop of the reclaimer starts with one closure in a local batch and
\* another in a published batch that is on a primary list and on a conflicts
\* list
C15_Witness ==
    /\ is_dropped
    /\ \E t \in Threads : tasks[t] = drop_slots(1)
    /\ \A r \in RetireIds : retired[r] # 0 /\ executed[r] = 0
    /\ \E s \in Threads : batch[s] # <<>>
    /\ \E s \in Threads : primary[s] # 0
    /\ \E s \in Threads, k \in Entries : conflicts[s][k] # 0

----------------------------------------------------------------------------
(* Critical sections that do not nest, and retire *)

NextSections ==
    \/ \E t \in Threads : ScanSlot(t)
    \/ \E t \in Threads : ScanSnapshot(t)
    \/ \E t \in Threads : Insert(t)
    \/ \E t \in Threads : InsertLink(t)
    \/ \E t \in Threads : DecNode(t)
    \/ \E t \in Threads : DecBatch(t)
    \/ \E t \in Threads : DetachHead(t)
    \/ \E t \in Threads : RunFn(t)
    \/ \E t \in Threads : BeginCriticalSection(t, 1)
    \/ \E t \in Threads : EndCriticalSection(t)
    \/ \E t \in Threads, p \in TestPtrs : RetireFlag(t, p)

\* begin_critical_section, end_critical_section and retire, no section
\* opened inside another
SpecSections == Init /\ [][NextSections]_vars

\* the closure of retire r has left the local batch of the thread that
\* retired it: its batch has been published
Published(r) ==
    /\ retired[r] # 0
    /\ \A s \in Threads : \A j \in 1..Len(batch[s]) : batch[s][j][3] # r

\* C16: the closure of a retired pointer does not run while a critical
\* section that was open at the retire is still open, and it has run once its
\* batch has been published, every critical section has been left and every
\* call has returned: no further call is needed for it to run.
C16_ReclaimAfterLeave ==
    \A r \in RetireIds :
        /\ executed[r] > 0 => blockers[r] = {}
        /\ (/\ Published(r)
            /\ \A s \in Threads : depth[s] = 0
            /\ \A t \in Threads : Idle(t)) => executed[r] = 1

----------------------------------------------------------------------------
(* Critical sections that nest (Spec) *)

\* the detach_head of its primary list that thread s has in progress
PrimaryDetach(s) ==
    {j \in 1..Len(tasks[s]) :
        tasks[s][j][1] = "detach_head" /\ tasks[s][j][2] = s /\ tasks[s][j][3] = 0}

\* C17: a thread that has opened more critical sections than it has closed
\* is seen as in a critical section by every scan, so a batch published then
\* is deferred for it, and it is not detaching its primary list.
C17_Reentrant ==
    \A s \in Threads :
        depth[s] > 0 => (is_in_critical_section(s) /\ PrimaryDetach(s) = {})

----------------------------------------------------------------------------
(* The counts of a block and the handles on it (SpecBlock) *)

\* the Arc and the Weak handles held on block b
ArcHandles(b) == SumOver([t \in Threads |-> arcs[t][b]], Threads)
WeakHandles(b) == SumOver([t \in Threads |-> weaks[t][b]], Threads)

\* Arc::strong_count and Arc::weak_count as the words stand
strong_count(b) == load_result(strong[b])
weak_count(b) == weak[b] - 1

\* C18: the strong count is never below the number of Arc handles and, while
\* an Arc is held, the weak count is never below the number of Weak handles;
\* once no call is running and no retired closure is pending the counts are
\* equal to the numbers of handles, so a clone followed by the drop of the
\* clone leaves them as they were.
C18_CloneDrop ==
    \A b \in Blocks :
        /\ strong_count(b) >= ArcHandles(b)
        /\ ArcHandles(b) > 0 => weak_count(b) >= WeakHandles(b)
        /\ Quiescent(b) =>
              /\ strong_count(b) = ArcHandles(b)
              /\ ArcHandles(b) > 0 => weak_count(b) = WeakHandles(b)

\* an Arc has been cloned and an Arc dropped: the closure of the drop is
\* pending and the strong count is one above the number of Arc handles
C18_Witness ==
    /\ \A t \in Threads : Idle(t)
    /\ strong[1] = NThreads + 1
    /\ ArcHandles(1) = NThreads
    /\ pool[1]["strong"] = 1

----------------------------------------------------------------------------
(* AtomicArc::store and the strong counts (SpecArc) *)

\* thread t is inside a store whose swap displaced block p
InStoreOf(t, p) ==
    /\ tasks[t] # <<>>
    /\ tasks[t][Len(tasks[t])][1] = "store_return"
    /\ tasks[t][Len(tasks[t])][2] = p

\* store(Some(&x)) adds one to the strong count of x and to no other
StoreIncrements ==
    [][\A t \in Threads, c \in Cells, x \in Blocks :
          AtomicArcStore(t, c, x) =>
              strong' = [strong EXCEPT ![x] = wrapping_add(@, 1)]]_vars

\* C19 as stated: store(Some(&x)) adds one to the strong count of x, and the
\* strong count of the block the cell held before is not decremented before
\* store returns.
C19_StoreDefers ==
    /\ StoreIncrements
    /\ [][\A t \in Threads :
            (RunFn(t) /\ Top(t)[3] = "arc") => ~InStoreOf(t, Top(t)[2])]_vars

\* C19 as amended: store(Some(&x)) adds one to the strong count of x; its
\* swap changes no count and hands the closure for the block the cell held
\* before to retire; when that retire does not fill the local batch of the
\* thread, store returns with the closure pending there; and a strong count
\* only goes down when a retired closure runs or user code drops an Arc.
C19_StoreRetires ==
    /\ StoreIncrements
    /\ [][\A t \in Threads :
            StoreSwap(t) =>
                LET before == cell[Top(t)[2]]
                    fns == Append(batch[t], <<before, "arc", 0>>)
                    capacity == IF cap[t] = 0 THEN MIN_NON_ZERO_CAP ELSE cap[t]
                IN /\ strong' = strong
                   /\ before # 0 =>
                         IF Len(fns) < capacity
                         THEN /\ batch'[t] = fns
                              /\ batches' = batches
                              /\ tasks'[t] = << <<"store_return", before, 0, 0>> >>
                         ELSE \E i \in BatchIds :
                                 batches[i].rc = 0 /\ batches'[i].fns = fns]_vars
    /\ [][\A b \in Blocks :
            strong'[b] # strong[b] =>
                \/ strong'[b] = wrapping_add(strong[b], 1)
                \/ \E t \in Threads : RunFn(t) /\ Top(t)[3] = "arc" /\ Top(t)[2] = b
                \/ \E t \in Threads : StdArcDrop(t, b)]_vars

\* a store has returned: the block it displaced is in no cell, and the
\* closure that is to release the cell's count on it is pending in the local
\* batch of the thread
C19_Witness ==
    \E t \in Threads, p \in Blocks :
        /\ At(t, "store_return")
        /\ Top(t)[2] = p
        /\ \A c \in Cells : cell[c] # p
        /\ strong[p] >= 1
        /\ \E j \in 1..Len(batch[t]) : batch[t][j] = <<p, "arc", 0>>

----------------------------------------------------------------------------
(* AtomicWeak (atomics.rs); the blocks are those of std::sync::Arc, whose   *)
(* weak word counts the Weak handles plus one for all the strong handles    *)

\* a clone that is dropped at once
weak_clone_dropped(p) == weak

\* _ = ManuallyDrop::new(Weak::from_raw(ptr)).clone(): the weak words after it
weak_clone(p) == [weak EXCEPT ![p] = wrapping_add(@, 1)]

\* thread t holds an Arc or a Weak on b
HoldsAny(t, b) == arcs[t][b] > 0 \/ weaks[t][b] > 0

\* AtomicWeak::from(&arc): cell c is made from an Arc on b that t holds
AtomicWeakFrom(t, c, b) ==
    /\ Idle(t)
    /\ calls < MaxCalls
    /\ calls' = calls + 1
    /\ ~Live(c)
    /\ arcs[t][b] > 0
    /\ weak' = weak_clone(b)
    /\ cell' = [cell EXCEPT ![c] = b]
    /\ stored' = [stored EXCEPT ![c] = b]
    /\ UNCHANGED <<strong, zeroSeen, dropped, freed, arcs, weaks, pool, asserted>>
    /\ UNCHANGED <<tasks, ret, testVars, smrVars, smrObs, is_dropped, fields, ctxVars>>

\* AtomicWeak::load: let _guard = R::protect()
AtomicWeakLoad(t, c) ==
    /\ Idle(t)
    /\ calls < MaxCalls
    /\ calls' = calls + 1
    /\ Live(c)
    /\ \A b \in Blocks : weaks[t][b] < MaxHandles
    /\ protect(t)
    /\ Start(t, << <<"weak_ptr_load", c, 0, 0>>, <<"guard_drop", 0, 0, 0>> >>)
    /\ UNCHANGED <<batch, cap, snap_ptr, conflicts, primary, nodes, batches>>
    /\ UNCHANGED <<held, retired, blockers, guards, executed>>
    /\ UNCHANGED <<blockVars, ret, testVars, cell, stored, is_dropped, fields, ctxVars>>

\* load: let ptr = self.ptr.load(Acquire); None when it is null
WeakPtrLoad(t) ==
    /\ At(t, "weak_ptr_load")
    /\ LET ptr == cell[Top(t)[2]]
       IN IF ptr = 0
          THEN Continue(t, <<>>)
          ELSE Continue(t, << <<"weak_clone_from_raw", ptr, 0, 0>> >>)
    /\ UNCHANGED <<blockVars, ret, testVars, smrVars, smrObs, cell, calls, stored, is_dropped, fields, ctxVars>>

\* Some(Weak::clone_from_raw(ptr)):
\* (*ManuallyDrop::new(Self::from_raw(ptr))).clone()
WeakCloneFromRaw(t) ==
    /\ At(t, "weak_clone_from_raw")
    /\ weak' = weak_clone(Top(t)[2])
    /\ weaks' = [weaks EXCEPT ![t][Top(t)[2]] = @ + 1]
    /\ Continue(t, <<>>)
    /\ UNCHANGED <<strong, zeroSeen, dropped, freed, arcs, pool, asserted>>
    /\ UNCHANGED <<ret, testVars, smrVars, smrObs, cell, calls, stored, is_dropped, fields, ctxVars>>

\* AtomicWeak::upgrade: let _guard = R::protect()
AtomicWeakUpgrade(t, c) ==
    /\ Idle(t)
    /\ calls < MaxCalls
    /\ calls' = calls + 1
    /\ Live(c)
    /\ \A b \in Blocks : arcs[t][b] < MaxHandles
    /\ protect(t)
    /\ Start(t, << <<"upgrade_load", c, 0, 0>>, <<"guard_drop", 0, 0, 0>> >>)
    /\ UNCHANGED <<batch, cap, snap_ptr, conflicts, primary, nodes, batches>>
    /\ UNCHANGED <<held, retired, blockers, guards, executed>>
    /\ UNCHANGED <<blockVars, ret, testVars, cell, stored, is_dropped, fields, ctxVars>>

\* upgrade: let ptr = self.ptr.load(Acquire); None when it is null
UpgradeLoad(t) ==
    /\ At(t, "upgrade_load")
    /\ LET ptr == cell[Top(t)[2]]
       IN IF ptr = 0
          THEN Continue(t, <<>>)
          ELSE Continue(t, << <<"std_upgrade", ptr, 0, 0>> >>)
    /\ UNCHANGED <<blockVars, ret, testVars, smrVars, smrObs, cell, calls, stored, is_dropped, fields, ctxVars>>

\* ManuallyDrop::new(Weak::from_raw(ptr)).upgrade() of std::sync::Weak: the
\* strong count is incremented unless it is zero
StdUpgrade(t) ==
    /\ At(t, "std_upgrade")
    /\ LET ptr == Top(t)[2]
       IN IF strong[ptr] = 0
          THEN UNCHANGED <<strong, arcs>>
          ELSE /\ strong' = increment_strong_count(ptr)
               /\ arcs' = [arcs EXCEPT ![t][ptr] = @ + 1]
    /\ Continue(t, <<>>)
    /\ UNCHANGED <<zeroSeen, weak, dropped, freed, weaks, pool, asserted>>
    /\ UNCHANGED <<ret, testVars, smrVars, smrObs, cell, calls, stored, is_dropped, fields, ctxVars>>

\* self.ptr.swap(new) of AtomicWeak::store by thread t; when the pointer
\* before is not null, R::retire(before, get_drop_fn::<T, false>())
weak_swap_retire(t, c, new) ==
    /\ cell' = [cell EXCEPT ![c] = new]
    /\ stored' = [stored EXCEPT ![c] = new]
    /\ IF cell[c] # 0
       THEN RetireBody(t, cell[c], "std_weak", 0, <<>>)
       ELSE /\ tasks' = [tasks EXCEPT ![t] = <<>>]
            /\ UNCHANGED <<batch, cap, batches>>

\* AtomicWeak::store(new): new = 0 is None, otherwise the pointer of an Arc or
\* a Weak that t holds, whose weak count is incremented first
AtomicWeakStore(t, c, new) ==
    /\ Idle(t)
    /\ calls < MaxCalls
    /\ calls' = calls + 1
    /\ Live(c)
    /\ new # 0 => HoldsAny(t, new)
    /\ IF new = 0
       THEN /\ weak_swap_retire(t, c, 0)
            /\ UNCHANGED weak
       ELSE /\ weak' = weak_clone(new)
            /\ Start(t, << <<"weak_store_swap", c, new, 0>> >>)
            /\ UNCHANGED <<batch, cap, batches, cell, stored>>
    /\ UNCHANGED <<in_cs, snap_ptr, conflicts, primary, nodes>>
    /\ UNCHANGED <<strong, zeroSeen, dropped, freed, arcs, weaks, pool, asserted>>
    /\ UNCHANGED <<ret, testVars, smrObs, is_dropped, fields, ctxVars>>

\* store: let before = self.ptr.swap(ptr, AcqRel), and the retire of before
WeakStoreSwap(t) ==
    /\ At(t, "weak_store_swap")
    /\ weak_swap_retire(t, Top(t)[2], Top(t)[3])
    /\ UNCHANGED <<in_cs, snap_ptr, conflicts, primary, nodes>>
    /\ UNCHANGED <<blockVars, ret, testVars, smrObs>>
    /\ UNCHANGED <<calls, is_dropped, fields, ctxVars>>

\* Drop for AtomicWeak, by the thread that owns the cell when no call on it
\* is in progress: retire of its pointer
AtomicWeakDrop(t, c) ==
    /\ Idle(t)
    /\ calls < MaxCalls
    /\ calls' = calls + 1
    /\ Live(c)
    /\ ~InUse(c)
    /\ cell' = [cell EXCEPT ![c] = NoCell]
    /\ stored' = [stored EXCEPT ![c] = NoCell]
    /\ IF cell[c] # 0
       THEN RetireBody(t, cell[c], "std_weak", 0, <<>>)
       ELSE UNCHANGED <<tasks, batch, cap, batches>>
    /\ UNCHANGED <<in_cs, snap_ptr, conflicts, primary, nodes>>
    /\ UNCHANGED <<blockVars, ret, testVars, smrObs, is_dropped, fields, ctxVars>>

\* user code drops a Weak it got from a cell
StdWeakDrop(t, b) ==
    /\ Idle(t)
    /\ weaks[t][b] > 0
    /\ weaks' = [weaks EXCEPT ![t][b] = @ - 1]
    /\ drop_weak(b)
    /\ UNCHANGED <<zeroSeen, tasks, ret, arcs, pool, asserted, testVars, smrVars, smrObs, cell, calls, stored, is_dropped, fields, ctxVars>>

\* let arc = Arc::new(..) for every block, all held by the last thread, and
\* AtomicWeak::from(&arc) for cell 1 and block 1; no other cell has been made
InitWeak ==
    /\ cell = [c \in Cells |-> IF c = 1 THEN 1 ELSE NoCell]
    /\ calls = 0
    /\ stored = cell
    /\ is_dropped = FALSE
    /\ InitCtx
    /\ fields = [b \in Blocks |-> <<>>]
    /\ strong = [b \in Blocks |-> 1]
    /\ weak = [b \in Blocks |-> IF b = 1 THEN 2 ELSE 1]
    /\ arcs = [t \in Threads |-> [b \in Blocks |-> IF t = NThreads THEN 1 ELSE 0]]
    /\ weaks = [t \in Threads |-> [b \in Blocks |-> 0]]
    /\ dropped = [b \in Blocks |-> 0]
    /\ freed = [b \in Blocks |-> 0]
    /\ pool = [b \in Blocks |-> [k \in Kinds |-> 0]]
    /\ zeroSeen = [b \in Blocks |-> FALSE]
    /\ InitThreads
    /\ InitTest
    /\ InitSmr

NextWeak ==
    \/ \E t \in Threads, c \in Cells, b \in Blocks : AtomicWeakFrom(t, c, b)
    \/ \E t \in Threads, c \in Cells : AtomicWeakLoad(t, c)
    \/ \E t \in Threads : WeakPtrLoad(t)
    \/ \E t \in Threads : WeakCloneFromRaw(t)
    \/ \E t \in Threads, c \in Cells : AtomicWeakUpgrade(t, c)
    \/ \E t \in Threads : UpgradeLoad(t)
    \/ \E t \in Threads : StdUpgrade(t)
    \/ \E t \in Threads : GuardDrop(t)
    \/ \E t \in Threads, c \in Cells, new \in {0} \cup Blocks : AtomicWeakStore(t, c, new)
    \/ \E t \in Threads : WeakStoreSwap(t)
    \/ \E t \in Threads, c \in Cells : AtomicWeakDrop(t, c)
    \/ \E t \in Threads, b \in Blocks : StdArcDrop(t, b)
    \/ \E t \in Threads, b \in Blocks : StdWeakDrop(t, b)
    \/ \E t \in Threads : ScanSlot(t)
    \/ \E t \in Threads : ScanSnapshot(t)
    \/ \E t \in Threads : Insert(t)
    \/ \E t \in Threads : InsertLink(t)
    \/ \E t \in Threads : DecNode(t)
    \/ \E t \in Threads : DecBatch(t)
    \/ \E t \in Threads : DetachHead(t)
    \/ \E t \in Threads : RunFn(t)

\* threads sharing AtomicWeak cells; the closures of AtomicWeak retire nothing
SpecWeak == InitWeak /\ [][NextWeak]_vars

----------------------------------------------------------------------------
(* The counts of a block that AtomicWeak cells point to (SpecWeak) *)

\* Arc::strong_count and Arc::weak_count of std::sync::Arc
std_strong_count(b) == strong[b]
std_weak_count(b) == IF weak[b] = Modulus - 1 THEN 0 ELSE weak[b] - 1

\* how many times e is in the sequence q
CountIn(q, e) == Cardinality({j \in 1..Len(q) : q[j] = e})

\* the weak counts on b that are owed: the cells that point to b, the Weak
\* handles, the count a store has added for the pointer it is about to swap
\* in, and the retired closures that are to drop a Weak on b
WeakOwed(b) ==
    Cardinality({c \in Cells : cell[c] = b})
    + WeakHandles(b)
    + SumOver([t \in Threads |->
                  Cardinality({j \in 1..Len(tasks[t]) :
                      \/ tasks[t][j][1] = "weak_store_swap" /\ tasks[t][j][3] = b
                      \/ tasks[t][j][1] = "run_fn" /\ tasks[t][j][2] = b})
                  + CountIn(batch[t], <<b, "std_weak", 0>>)], Threads)
    + SumOver([i \in BatchIds |-> CountIn(batches[i].fns, <<b, "std_weak", 0>>)], BatchIds)

\* C20: AtomicWeak::from(&arc) adds one to the weak count of the block and
\* leaves the strong count; the steps of AtomicWeak::load up to the pointer
\* load change no count, and its clone_from_raw, taken exactly when the
\* pointer is not null, adds one to the weak count, makes one Weak and leaves
\* the strong count; and so, while a block has strong handles, strong_count
\* is the number of Arcs and weak_count the number of cells, Weaks and pending
\* weak drops on it (one Arc, one cell and one loaded Weak: 1 and 2).
C20_WeakCounts ==
    /\ [][\A t \in Threads, c \in Cells, b \in Blocks :
            AtomicWeakFrom(t, c, b) =>
                /\ weak' = [weak EXCEPT ![b] = weak[b] + 1]
                /\ strong' = strong]_vars
    /\ [][\A t \in Threads :
            ((\E c \in Cells : AtomicWeakLoad(t, c)) \/ WeakPtrLoad(t)) =>
                UNCHANGED <<strong, weak, weaks>>]_vars
    /\ [][\A t \in Threads :
            WeakPtrLoad(t) =>
                LET ptr == cell[Top(t)[2]]
                IN StepsOn(tasks'[t], "weak_clone_from_raw", ptr)
                       = (IF ptr = 0 THEN {} ELSE {1})]_vars
    /\ [][\A t \in Threads :
            WeakCloneFromRaw(t) =>
                LET ptr == Top(t)[2]
                IN /\ weak' = [weak EXCEPT ![ptr] = weak[ptr] + 1]
                   /\ weaks' = [weaks EXCEPT ![t][ptr] = weaks[t][ptr] + 1]
                   /\ strong' = strong]_vars
    /\ [](\A b \in Blocks :
            std_strong_count(b) > 0 =>
                /\ std_strong_count(b) = ArcHandles(b)
                /\ std_weak_count(b) = WeakOwed(b))

\* let weak = atomic.load().unwrap() on the cell that
\* AtomicWeak::from(&arc) made: one Arc, one cell and one Weak on the block
C20_Witness ==
    /\ calls = 2
    /\ \A t \in Threads : Idle(t)
    /\ cell[2] = 2
    /\ cell[1] # 2
    /\ ArcHandles(2) = 1
    /\ WeakHandles(2) = 1
    /\ std_strong_count(2) = 1
    /\ std_weak_count(2) = 2

----------------------------------------------------------------------------
(* StickyCounter with try_increment and decrement only: the block under an  *)
(* arbitrary reclaimer when nothing calls load()                            *)

NextNoLoad ==
    \/ \E t \in Threads : TryIncrement(t)
    \/ \E t \in Threads : TryIncrementUndo(t)
    \/ \E t \in Threads : Decrement(t)
    \/ \E t \in Threads : DecrementCas(t)
    \/ \E t \in Threads, b \in Blocks : ArcClone(t, b)
    \/ \E t \in Threads : CloneFromRaw(t)
    \/ \E t \in Threads, b \in Blocks : ArcDowngrade(t, b)
    \/ \E t \in Threads, b \in Blocks : ArcDrop(t, b)
    \/ \E t \in Threads, b \in Blocks : WeakDrop(t, b)
    \/ \E t \in Threads, b \in Blocks : WeakUpgrade(t, b)
    \/ \E t \in Threads : TryCloneFromRaw(t)
    \/ \E t \in Threads : RunFn(t)
    \/ \E t \in Threads : StrongDrop(t)
    \/ \E t \in Threads : WeakDropFn(t)
    \/ \E t \in Threads : RetireAny(t)
    \/ \E t \in Threads, b \in Blocks, k \in Kinds : CallAny(t, b, k)

SpecNoLoad == InitBlock /\ [][NextNoLoad]_vars

\* the decrements on b that have returned 1
ReturnedOne(b) ==
    dropped[b]
    + Cardinality({t \in Threads :
          /\ At(t, "strong_drop")
          /\ Top(t)[2] = b
          /\ Returned(t, "decrement")
          /\ ret[t][2] = 1})

\* a decrement on b is still to make its fetch_sub: a strong handle is held,
\* a try_increment has returned Ok for a handle that is being made, or a
\* strong closure is retired, pending or has not reached its fetch_sub
DecrementOwed(b) ==
    \/ ArcHandles(b) > 0
    \/ pool[b]["strong"] > 0
    \/ \E t \in Threads : \E j \in 1..Len(tasks[t]) :
          /\ tasks[t][j][2] = b
          /\ \/ tasks[t][j][1] = "decrement"
             \/ tasks[t][j][1] \in {"retire", "run_fn"} /\ tasks[t][j][3] = "strong"
             \/ /\ tasks[t][j][1] \in {"clone_from_raw", "try_clone_from_raw"}
                /\ Returned(t, "try_increment")
                /\ ret[t][2] # Err

\* C30: with no load(), at most one decrement on a counter returns 1; the
\* step on which a decrement returns 1 is taken when every other decrement
\* has made its fetch_sub; and once as many decrements as one plus the
\* try_increments that returned Ok have returned, exactly one has returned 1.
C30_OneSeals ==
    /\ [](\A b \in Blocks : ReturnedOne(b) <= 1)
    /\ [][\A t \in Threads :
            (DecrementCas(t) /\ ret'[t][2] = 1) => ~DecrementOwed(Top(t)[2])]_vars
    /\ [](\A b \in Blocks :
            (b = 1 /\ (\A t \in Threads : Idle(t)) /\ ~DecrementOwed(b)) =>
                ReturnedOne(b) = 1)

\* a decrement took the counter from 1 to 0, a try_increment came before its
\* compare_exchange, and the decrement has returned 2
C30_Witness ==
    \E t \in Threads :
        /\ Returned(t, "decrement")
        /\ ret[t][4] = 1
        /\ ret[t][2] = 2

----------------------------------------------------------------------------
(* Published batches and their references *)

\* every slot has published a batch before, whose closures have run: the
\* local batches are empty Vecs of capacity next_batch_size
InitBatch ==
    /\ strong = [b \in Blocks |-> 0]
    /\ weak = [b \in Blocks |-> 0]
    /\ arcs = [t \in Threads |-> [b \in Blocks |-> 0]]
    /\ weaks = [t \in Threads |-> [b \in Blocks |-> 0]]
    /\ dropped = [b \in Blocks |-> 0]
    /\ freed = [b \in Blocks |-> 0]
    /\ pool = [b \in Blocks |-> [k \in Kinds |-> 0]]
    /\ zeroSeen = [b \in Blocks |-> FALSE]
    /\ cell = [c \in Cells |-> 0]
    /\ calls = 0
    /\ stored = cell
    /\ is_dropped = FALSE
    /\ InitCtx
    /\ fields = [b \in Blocks |-> <<>>]
    /\ InitThreads
    /\ InitTest
    /\ in_cs = [s \in Threads |-> FALSE]
    /\ batch = [s \in Threads |-> <<>>]
    /\ cap = [s \in Threads |-> next_batch_size]
    /\ snap_ptr = [s \in Threads |-> [k \in 1..SNAPSHOT_PTRS_PER_NODE |-> 0]]
    /\ conflicts = [s \in Threads |-> [k \in Entries |-> 0]]
    /\ primary = [s \in Threads |-> 0]
    /\ nodes = [n \in NodeIds |-> NoNode]
    /\ batches = [i \in BatchIds |-> NoBatch]
    /\ depth = [s \in Threads |-> 0]
    /\ held = [s \in Threads |-> [k \in Entries |-> "none"]]
    /\ retired = [r \in RetireIds |-> 0]
    /\ blockers = [r \in RetireIds |-> {}]
    /\ guards = [r \in RetireIds |-> {}]
    /\ executed = [r \in RetireIds |-> 0]

\* the steps of NextProtect; a batch is published when it holds
\* next_batch_size closures, so the lists never hold two nodes and no node
\* has a next to drop
NextBatch ==
    \/ \E t \in Threads : ScanSlot(t)
    \/ \E t \in Threads : ScanSnapshot(t)
    \/ \E t \in Threads : Insert(t)
    \/ \E t \in Threads : InsertLink(t)
    \/ \E t \in Threads : DecBatch(t)
    \/ \E t \in Threads : DetachHead(t)
    \/ \E t \in Threads : RunFn(t)
    \/ \E t \in Threads : BeginCriticalSection(t, 1)
    \/ \E t \in Threads : EndCriticalSection(t)
    \/ \E t \in Threads, p \in TestPtrs : ProtectPtr(t, p, SNAPSHOT_PTRS_PER_NODE)
    \/ \E t \in Threads, k \in Entries : Release(t, k)
    \/ \E t \in Threads, p \in TestPtrs : RetireFlag(t, p)

\* protect_ptr, release, sections and retire once the batches hold several
\* closures
SpecBatch == InitBatch /\ [][NextBatch]_vars

\* the references to the published batch i: the nodes that hold it, and the
\* handles that a thread is about to drop
BatchRefs(i) ==
    Cardinality({n \in NodeIds : nodes[n].rc > 0 /\ nodes[n].batch = i})
    + SumOver([t \in Threads |-> Cardinality(StepsOn(tasks[t], "dec_batch", i))], Threads)

\* the places the closure of the r-th retire is kept in
Kept(r) ==
    LET f == <<retired[r], "flag", r>>
    IN SumOver([t \in Threads |->
                   CountIn(batch[t], f)
                   + Cardinality({j \in 1..Len(tasks[t]) :
                         tasks[t][j] = <<"run_fn", f[1], f[2], f[3]>>})], Threads)
       + SumOver([i \in BatchIds |-> CountIn(batches[i].fns, f)], BatchIds)

\* the closures of q are in the order of their retire calls
InRetireOrder(q) == \A j, k \in 1..Len(q) : j < k => q[j][3] < q[k][3]

\* C29: the reference count of a published batch is the number of list nodes
\* that hold it plus the handles about to be dropped, and while it is not
\* zero no closure of the batch has run; the drop of the last reference, and
\* no other drop, starts all the closures of the batch in the order of their
\* retire calls; every retired closure is kept in one place until it runs,
\* and runs once.
C29_BatchRuns ==
    /\ [](\A i \in BatchIds :
            /\ batches[i].rc = BatchRefs(i)
            /\ InRetireOrder(batches[i].fns)
            /\ \A j \in 1..Len(batches[i].fns) : executed[batches[i].fns[j][3]] = 0)
    /\ [][\A t \in Threads :
            DecBatch(t) =>
                LET i == Top(t)[2]
                IN /\ batches[i].rc > 0
                   /\ tasks'[t] = (IF batches[i].rc = 1
                                   THEN FunctionTasks(batches[i].fns)
                                   ELSE <<>>) \o Tail(tasks[t])
                   /\ executed' = executed]_vars
    /\ [](\A r \in RetireIds :
            retired[r] # 0 => Kept(r) + executed[r] = 1)

\* the last reference of a batch of two closures was dropped: the first
\* closure has run and the second is about to
C29_Witness ==
    \E t \in Threads :
        /\ tasks[t] = << <<"run_fn", 1, "flag", 2>> >>
        /\ executed = [r \in RetireIds |-> IF r = 1 THEN 1 ELSE 0]
        /\ \A i \in BatchIds : batches[i] = NoBatch
        /\ \A s \in Threads : s # t => Idle(s)

----------------------------------------------------------------------------
(* The node of a pending list that is dropped (SpecProtect) *)

\* the batches held by the nodes of the list that starts at node n
RECURSIVE ChainBatches(_)
ChainBatches(n) ==
    IF n = 0 \/ nodes[n].rc = 0 THEN {}
    ELSE {nodes[n].batch} \cup ChainBatches(nodes[n].next)

\* C28: when the last reference to a node of a slot's pending list goes, the
\* one who drops it looks at every snapshot entry of that slot before the
\* node's reference to the batch is dropped; an entry found to hold a pointer
\* of the batch gets the batch inserted in its conflict list, with a reference
\* of its own; so the closure of a retire does not run while a handle on its
\* pointer that was held when retire was called is unreleased, and once
\* nothing is running the batch is on the conflict list of that handle (or
\* still on the pending list of its slot).
C28_HandOff ==
    /\ [][\A n \in NodeIds :
            (nodes[n].rc > 0 /\ nodes'[n].rc = 0 /\ nodes[n].check # 0) =>
                \E t \in Threads :
                    LET scan == SnapshotTasks(nodes[n].batch, nodes[n].check)
                    IN /\ Len(tasks'[t]) > Len(scan)
                       /\ SubSeq(tasks'[t], 1, Len(scan) + 1)
                              = scan \o << <<"dec_batch", nodes[n].batch, 0, 0>> >>]_vars
    /\ [][\A t \in Threads :
            ScanSnapshot(t) =>
                LET i == Top(t)[2]
                    s == Top(t)[3]
                    k == Top(t)[4]
                IN (snap_ptr[s][k] # 0 /\ snap_ptr[s][k] \in lookup(batches[i].fns)) =>
                       Head(tasks'[t]) = <<"insert", i, <<s, k>>, 0>>]_vars
    /\ [][\A t \in Threads :
            Insert(t) =>
                LET i == Top(t)[2]
                    list == Top(t)[3]
                    new == IF list[2] = 0 THEN primary'[list[1]]
                           ELSE conflicts'[list[1]][list[2]]
                IN /\ batches'[i].rc = batches[i].rc + 1
                   /\ new # 0
                   /\ nodes'[new].batch = i]_vars
    /\ [](\A r \in RetireIds : \A e \in guards[r] :
            /\ executed[r] = 0
            /\ \A i \in BatchIds :
                  (/\ \A t \in Threads : Idle(t)
                   /\ CountIn(batches[i].fns, <<retired[r], "flag", r>>) > 0) =>
                      \/ i \in ChainBatches(conflicts[e[1]][e[2]])
                      \/ i \in ChainBatches(primary[e[1]]))

\* thread 1 held a handle on the pointer and was in a critical section when
\* the batch was published; it has ended the section, dropped the node of its
\* pending list and found its handle: it is about to insert the batch in the
\* conflict list of the handle
C28_Witness ==
    \E r \in RetireIds, i \in BatchIds, k \in Entries :
        /\ <<1, k>> \in guards[r]
        /\ executed[r] = 0
        /\ depth[1] = 0
        /\ CountIn(batches[i].fns, <<retired[r], "flag", r>>) > 0
        /\ tasks[1] = << <<"insert", i, <<1, k>>, 0>>, <<"dec_batch", i, 0, 0>> >>

----------------------------------------------------------------------------
(* The strong counts of the blocks that AtomicArc cells point to (SpecArc) *)

\* the steps of kind op in the stacks of all threads whose field f is b
Steps(op, f, b) ==
    SumOver([t \in Threads |->
                Cardinality({j \in 1..Len(tasks[t]) :
                    tasks[t][j][1] = op /\ tasks[t][j][f] = b})], Threads)

\* the closures drop(Arc::from_raw(b)) that are retired and have not run
PendingArc(b) ==
    SumOver([t \in Threads |->
                CountIn(batch[t], <<b, "arc", 0>>)
                + Cardinality({j \in 1..Len(tasks[t]) :
                      /\ tasks[t][j][1] \in {"retire", "run_fn"}
                      /\ tasks[t][j][2] = b
                      /\ tasks[t][j][3] = "arc"})], Threads)
    + SumOver([i \in BatchIds |-> CountIn(batches[i].fns, <<b, "arc", 0>>)], BatchIds)

\* the strong counts on b that are owed: the Arcs, the cells that hold b and
\* the pending strong drops; a call in progress has a count in hand for the
\* pointer that store is about to swap in or that clone is about to return
\* in a new cell, and is yet to add the count for the pointer that
\* compare_exchange has swapped in or that clone has loaded
StrongOwed(b) ==
    ArcHandles(b)
    + Cardinality({c \in Cells : cell[c] = b})
    + PendingArc(b)
    + Steps("store_swap", 3, b)
    + Steps("clone_return", 2, b)
    - Steps("increment_strong_count", 2, b)

\* C26: for every block the strong count is the number of Arcs plus the
\* number of cells that hold the block plus the number of strong drops that
\* are retired and have not run.
C26_StrongConserved ==
    \A b \in Blocks : std_strong_count(b) = StrongOwed(b)

----------------------------------------------------------------------------
(* AtomicWeak::compare_exchange and Clone for AtomicWeak *)

\* AtomicWeak::compare_exchange(current, new): let guard = R::protect()
AtomicWeakCompareExchange(t, c, cur, new) ==
    /\ Idle(t)
    /\ calls < MaxCalls
    /\ calls' = calls + 1
    /\ Live(c)
    /\ cur # 0 => HoldsAny(t, cur)
    /\ new # 0 => HoldsAny(t, new)
    /\ \A b \in Blocks : weaks[t][b] < MaxHandles
    /\ protect(t)
    /\ Start(t, << <<"weak_cas", c, <<cur, new>>, 0>> >>)
    /\ UNCHANGED <<batch, cap, snap_ptr, conflicts, primary, nodes, batches>>
    /\ UNCHANGED <<held, retired, blockers, guards, executed>>
    /\ UNCHANGED <<blockVars, ret, testVars, cell, stored, is_dropped, fields, ctxVars>>

\* the Ok(before) arm of AtomicWeak::compare_exchange: the pointer given to
\* _ = ManuallyDrop::new(Weak::from_raw(before)).clone()
weak_cas_cloned(n, before) == before

\* compare_exchange: self.ptr.compare_exchange(c, n, AcqRel, Acquire) and the
\* steps its result leaves: Ok, a Weak clone and a retire of before when n is
\* neither null nor before; Err, Weak::clone_from_raw(before) unless it is null
WeakCas(t) ==
    /\ At(t, "weak_cas")
    /\ LET c == Top(t)[2]
           cur == Top(t)[3][1]
           n == Top(t)[3][2]
           before == cell[c]
           replaced == n # 0 /\ n # before
       IN IF compare_exchange_ok(before, cur)
          THEN /\ cell' = [cell EXCEPT ![c] = n]
               /\ stored' = [stored EXCEPT ![c] = n]
               /\ SetRet(t, "compare_exchange", "Ok", cur, before)
               /\ Continue(t,
                     (IF replaced
                      THEN << <<"weak_clone", weak_cas_cloned(n, before), 0, 0>> >>
                      ELSE <<>>)
                     \o << <<"guard_drop", 0, 0, 0>> >>
                     \o (IF replaced /\ before # 0
                         THEN << <<"retire", before, "std_weak", 0>> >> ELSE <<>>))
          ELSE /\ UNCHANGED <<cell, stored>>
               /\ SetRet(t, "compare_exchange", "Err", cur, before)
               /\ Continue(t,
                     (IF before # 0
                      THEN << <<"weak_clone_from_raw", before, 0, 0>> >> ELSE <<>>)
                     \o << <<"guard_drop", 0, 0, 0>> >>)
    /\ UNCHANGED <<blockVars, testVars, smrVars, smrObs>>
    /\ UNCHANGED <<calls, is_dropped, fields, ctxVars>>

\* _ = ManuallyDrop::new(Weak::from_raw(ptr)).clone(); with ptr null the
\* clone reads a counter at an address below null, which is undefined: the
\* call faults, or some word is incremented
ManuallyDropClone(t) ==
    /\ At(t, "weak_clone")
    /\ LET ptr == Top(t)[2]
       IN IF ptr # 0
          THEN /\ weak' = weak_clone(ptr)
               /\ UNCHANGED asserted
          ELSE /\ asserted' = TRUE
               /\ \E b \in {0} \cup Blocks :
                     weak' = IF b = 0 THEN weak ELSE weak_clone(b)
    /\ Continue(t, <<>>)
    /\ UNCHANGED <<strong, zeroSeen, dropped, freed, arcs, weaks, pool>>
    /\ UNCHANGED <<ret, testVars, smrVars, smrObs, cell, calls, stored, is_dropped, fields, ctxVars>>

\* Clone for AtomicWeak: let _guard = R::protect()
AtomicWeakClone(t, c) ==
    /\ Idle(t)
    /\ calls < MaxCalls
    /\ calls' = calls + 1
    /\ Live(c)
    /\ DeadCells # {}
    /\ protect(t)
    /\ Start(t, << <<"weak_clone_load", c, 0, 0>> >>)
    /\ UNCHANGED <<batch, cap, snap_ptr, conflicts, primary, nodes, batches>>
    /\ UNCHANGED <<held, retired, blockers, guards, executed>>
    /\ UNCHANGED <<blockVars, ret, testVars, cell, stored, is_dropped, fields, ctxVars>>

\* clone: let ptr = self.ptr.load(Acquire), cloned as a Weak when it is not null
WeakCloneLoad(t) ==
    /\ At(t, "weak_clone_load")
    /\ LET ptr == cell[Top(t)[2]]
       IN Continue(t,
             (IF ptr # 0 THEN << <<"weak_clone", ptr, 0, 0>> >> ELSE <<>>)
             \o << <<"guard_drop", 0, 0, 0>>, <<"clone_return", ptr, 0, 0>> >>)
    /\ UNCHANGED <<blockVars, ret, testVars, smrVars, smrObs, cell, calls, stored, is_dropped, fields, ctxVars>>

NextWeakCas ==
    \/ \E t \in Threads, c \in Cells, b \in Blocks : AtomicWeakFrom(t, c, b)
    \/ \E t \in Threads, c \in Cells, cur \in {0} \cup Blocks, new \in {0} \cup Blocks :
          AtomicWeakCompareExchange(t, c, cur, new)
    \/ \E t \in Threads : WeakCas(t)
    \/ \E t \in Threads : ManuallyDropClone(t)
    \/ \E t \in Threads : WeakCloneFromRaw(t)
    \/ \E t \in Threads : GuardDrop(t)
    \/ \E t \in Threads, c \in Cells, new \in {0} \cup Blocks : AtomicWeakStore(t, c, new)
    \/ \E t \in Threads : WeakStoreSwap(t)
    \/ \E t \in Threads, c \in Cells : AtomicWeakClone(t, c)
    \/ \E t \in Threads : WeakCloneLoad(t)
    \/ \E t \in Threads : CloneReturn(t)
    \/ \E t \in Threads, c \in Cells : AtomicWeakDrop(t, c)
    \/ \E t \in Threads : ReclaimerStep(t)

\* threads that compare-exchange, store, clone and drop AtomicWeak cells
SpecWeakCas == InitWeak /\ [][NextWeakCas]_vars

\* C27: a compare_exchange on an AtomicWeak that succeeds with new not null
\* and different from the displaced pointer leaves one Weak clone of new to
\* make, and one retire of the displaced pointer unless it is null; the first
\* step of a store of a pointer adds one to its weak count, and clone leaves
\* one Weak clone of the pointer it loaded to make.
C27_WeakCasAccounting ==
    /\ [][\A t \in Threads :
            (WeakCas(t) /\ ret'[t][2] = "Ok") =>
                LET n == Top(t)[3][2]
                    before == cell[Top(t)[2]]
                    clones == {j \in 1..Len(tasks'[t]) : tasks'[t][j][1] = "weak_clone"}
                    rets == StepsOn(tasks'[t], "retire", before)
                IN (n # 0 /\ n # before) =>
                       /\ Cardinality(clones) = 1
                       /\ \A j \in clones : tasks'[t][j][2] = n
                       /\ Cardinality(rets) = (IF before # 0 THEN 1 ELSE 0)]_vars
    /\ [][\A t \in Threads, c \in Cells, x \in Blocks :
            AtomicWeakStore(t, c, x) => weak' = [weak EXCEPT ![x] = weak[x] + 1]]_vars
    /\ [][\A t \in Threads :
            WeakCloneLoad(t) =>
                LET ptr == cell[Top(t)[2]]
                IN ptr # 0 => Head(tasks'[t]) = <<"weak_clone", ptr, 0, 0>>]_vars

----------------------------------------------------------------------------
(* The tests of smart_ptrs.rs: values that own handles *)

\* blocks allocated so far, in the order 1, 2, ...
ChainLen == Cardinality({b \in Blocks : weak[b] # 0 \/ freed[b] # 0})

\* the nodes of test_arc_cascading_drop: each node owns an Arc of the node
\* made before it
IsChain ==
    /\ ChainLen >= 1
    /\ \A b \in 1..ChainLen : fields[b] = IF b = 1 THEN <<>> ELSE << <<"strong", b - 1>> >>

\* the nodes of test_arc_weak_cycle: n0 is block 1, n1 is block 2
IsCycle ==
    /\ ChainLen = 2
    /\ fields[1] = << <<"strong", 2>> >>
    /\ fields[2] = << <<"weak", 1>> >>

\* a capacity above the retirements a test makes, which no published batch leaves
ChainCap == NBlocks + next_batch_size

\* the passes a test makes
MaxPasses == NBlocks + 1

\* no block is allocated; the slot of thread 1 has an empty batch with the
\* capacity of a new slot, of a slot after its first push, of a slot after
\* a batch was published, or a larger one
InitNodes ==
    /\ strong = [b \in Blocks |-> 0]
    /\ weak = [b \in Blocks |-> 0]
    /\ arcs = [t \in Threads |-> [b \in Blocks |-> 0]]
    /\ weaks = [t \in Threads |-> [b \in Blocks |-> 0]]
    /\ dropped = [b \in Blocks |-> 0]
    /\ freed = [b \in Blocks |-> 0]
    /\ pool = [b \in Blocks |-> [k \in Kinds |-> 0]]
    /\ zeroSeen = [b \in Blocks |-> FALSE]
    /\ cell = [c \in Cells |-> 0]
    /\ calls = 0
    /\ stored = cell
    /\ is_dropped = FALSE
    /\ InitCtx
    /\ fields = [b \in Blocks |-> <<>>]
    /\ InitThreads
    /\ InitTest
    /\ in_cs = [s \in Threads |-> FALSE]
    /\ batch = [s \in Threads |-> <<>>]
    /\ snap_ptr = [s \in Threads |-> [k \in 1..SNAPSHOT_PTRS_PER_NODE |-> 0]]
    /\ conflicts = [s \in Threads |-> [k \in Entries |-> 0]]
    /\ primary = [s \in Threads |-> 0]
    /\ nodes = [n \in NodeIds |-> NoNode]
    /\ batches = [i \in BatchIds |-> NoBatch]
    /\ depth = [s \in Threads |-> 0]
    /\ held = [s \in Threads |-> [k \in Entries |-> "none"]]
    /\ retired = [r \in RetireIds |-> 0]
    /\ blockers = [r \in RetireIds |-> {}]
    /\ guards = [r \in RetireIds |-> {}]
    /\ executed = [r \in RetireIds |-> 0]
    /\ \E c \in {0, MIN_NON_ZERO_CAP, next_batch_size, ChainCap} :
          cap = [s \in Threads |-> IF s = 1 THEN c ELSE 0]

\* test_arc_cascading_drop, the loop body: head = Some(Arc::new(Node { _next:
\* head.as_ref().map(Arc::clone), .. }))
ChainPush(t) ==
    /\ Idle(t)
    /\ trial = 0
    /\ ChainLen < NBlocks
    /\ ChainLen = 0 \/ (IsChain /\ arcs[t][ChainLen] = 1 /\ \A b \in Blocks : weaks[t][b] = 0)
    /\ LET old == ChainLen
           b == ChainLen + 1
       IN IF old = 0
          THEN Start(t, << <<"arc_new", b, <<>>, 0>> >>)
          ELSE Start(t, << <<"try_increment", old, 0, 0>>,
                           <<"clone_from_raw", old, 0, 0>>,
                           <<"arc_new", b, << <<"strong", old>> >>, 0>>,
                           <<"assign", old, 0, 0>> >>)
    /\ UNCHANGED <<strong, zeroSeen, ret, ctrFrame, testVars, smrVars, smrObs, cell, calls, stored, is_dropped, fields, ctxVars>>

\* Arc::new(data): a block with strong = 1 and weak = 1; the handles of data
\* are moved into the block
ArcNew(t) ==
    /\ At(t, "arc_new")
    /\ LET b == Top(t)[2]
           fs == Top(t)[3]
           moved(kind, x) == Cardinality({j \in 1..Len(fs) : fs[j] = <<kind, x>>})
       IN /\ strong' = [strong EXCEPT ![b] = 1]
          /\ weak' = [weak EXCEPT ![b] = 1]
          /\ fields' = [fields EXCEPT ![b] = fs]
          /\ arcs' = [arcs EXCEPT ![t] =
                         [x \in Blocks |-> IF x = b THEN 1 ELSE arcs[t][x] - moved("strong", x)]]
          /\ weaks' = [weaks EXCEPT ![t] = [x \in Blocks |-> weaks[t][x] - moved("weak", x)]]
    /\ ClearRet(t)
    /\ Continue(t, <<>>)
    /\ UNCHANGED <<zeroSeen, dropped, freed, pool, asserted>>
    /\ UNCHANGED <<testVars, smrVars, smrObs, cell, calls, stored, is_dropped, ctxVars>>

\* the assignment to head drops the Arc head held: Drop for Arc
Assign(t) ==
    /\ At(t, "assign")
    /\ LET old == Top(t)[2]
       IN /\ arcs' = [arcs EXCEPT ![t][old] = @ - 1]
          /\ Continue(t, << <<"retire", old, "strong", 0>> >>)
    /\ UNCHANGED <<strong, zeroSeen, ret, weak, dropped, freed, weaks, pool, asserted>>
    /\ UNCHANGED <<testVars, smrVars, smrObs, cell, calls, stored, is_dropped, fields, ctxVars>>

\* test_arc_weak_cycle: let n1 = Arc::new(RefCell::new(Node { _prev:
\* Some(Arc::downgrade(&n0)), _next: None, .. })), after the downgrade
CycleN1(t) ==
    /\ Idle(t)
    /\ trial = 0
    /\ ChainLen = 1
    /\ ChainLen < NBlocks
    /\ arcs[t][1] = 1
    /\ weaks[t][1] = 1
    /\ Start(t, << <<"arc_new", 2, << <<"weak", 1>> >>, 0>> >>)
    /\ UNCHANGED <<strong, zeroSeen, ret, ctrFrame, testVars, smrVars, smrObs, cell, calls, stored, is_dropped, fields, ctxVars>>

\* test_arc_weak_cycle: n0.borrow_mut()._next = Some(n1.clone())
CycleLink(t) ==
    /\ Idle(t)
    /\ trial = 0
    /\ ChainLen = 2
    /\ fields[1] = <<>>
    /\ fields[2] = << <<"weak", 1>> >>
    /\ arcs[t][1] = 1
    /\ arcs[t][2] = 1
    /\ Start(t, << <<"try_increment", 2, 0, 0>>, <<"clone_from_raw", 2, 0, 0>>,
                   <<"set_next", 1, 2, 0>> >>)
    /\ UNCHANGED <<strong, zeroSeen, ret, ctrFrame, testVars, smrVars, smrObs, cell, calls, stored, is_dropped, fields, ctxVars>>

\* the assignment to _next, which held None, moves the clone into n0
SetNext(t) ==
    /\ At(t, "set_next")
    /\ LET b == Top(t)[2]
           x == Top(t)[3]
       IN /\ fields' = [fields EXCEPT ![b] = Append(@, <<"strong", x>>)]
          /\ arcs' = [arcs EXCEPT ![t][x] = @ - 1]
    /\ Continue(t, <<>>)
    /\ UNCHANGED <<strong, zeroSeen, ret, weak, dropped, freed, weaks, pool, asserted>>
    /\ UNCHANGED <<testVars, smrVars, smrObs, cell, calls, stored, is_dropped, ctxVars>>

\* the structure a test builds is complete
Built == IsCycle \/ (IsChain /\ \A t \in Threads, b \in Blocks : weaks[t][b] = 0)

\* StandardReclaimer::cleanup_owned_slot(), the i-th pass of a test: the
\* closures of the batch of the calling thread's slot are run, and the lists
\* of the slot are detached
CleanupOwnedSlot(t) ==
    /\ Idle(t)
    /\ Built
    /\ \A b \in Blocks : arcs[t][b] = 0
    /\ trial < MaxPasses
    /\ trial' = trial + 1
    /\ Start(t, << <<"cleanup_batch", t, 0, 0>> >> \o Tail(drop_slot(t)))
    /\ UNCHANGED <<blockVars, ret, spawned, nz, smrVars, smrObs, cell, calls, stored, is_dropped, fields, ctxVars>>

\* the pass runs the closures in the order of their retirement; the slot is
\* left an empty batch of the same capacity
CleanupBatch(t) ==
    /\ At(t, "cleanup_batch")
    /\ LET s == Top(t)[2]
       IN /\ batch' = [batch EXCEPT ![s] = <<>>]
          /\ Continue(t, FunctionTasks(batch[s]))
    /\ UNCHANGED <<in_cs, cap, snap_ptr, conflicts, primary, nodes, batches>>
    /\ UNCHANGED <<blockVars, ret, testVars, smrObs, cell, calls, stored, is_dropped, fields, ctxVars>>

\* the two tests, run by thread 1
NextNodes ==
    \/ ChainPush(1)
    \/ ArcNew(1)
    \/ Assign(1)
    \/ TryIncrement(1)
    \/ CloneFromRaw(1)
    \/ (trial = 0 /\ ChainLen = 1 /\ weaks[1][1] = 0 /\ NBlocks > 1 /\ ArcDowngrade(1, 1))
    \/ CycleN1(1)
    \/ CycleLink(1)
    \/ SetNext(1)
    \/ \E b \in Blocks : Built /\ trial = 0 /\ ArcDrop(1, b)
    \/ Retire(1)
    \/ ScanSlot(1)
    \/ ScanSnapshot(1)
    \/ DecBatch(1)
    \/ RunFn(1)
    \/ Decrement(1)
    \/ DecrementCas(1)
    \/ StrongDrop(1)
    \/ WeakDropFn(1)
    \/ CleanupOwnedSlot(1)
    \/ CleanupBatch(1)
    \/ DetachHead(1)

SpecNodes == InitNodes /\ [][NextNodes]_vars

\* thread 1 has dropped every handle it held
HandlesGone == \A b \in Blocks : arcs[1][b] = 0

\* no retirement of the test has filled the batch of the slot
Roomy == cap[1] = ChainCap

\* the values dropped after i passes over a chain: the i nodes made last
ChainOrder(i) == \A b \in 1..ChainLen : dropped[b] = IF b > ChainLen - i THEN 1 ELSE 0

Quiescence ==
    /\ \A t \in Threads : Idle(t)
    /\ \A s \in Threads : batch[s] = <<>>
    /\ \A i \in BatchIds : batches[i].rc = 0

----------------------------------------------------------------------------
(* tests/integration_tests.rs: test_stack *)

\* iters_per_thread: as many pushes as the blocks of the model allow
StackIters == NBlocks \div NThreads

\* the memory the allocator can hand out
FreeBlocks == {b \in Blocks : weak[b] = 0}

\* the entry of the Snapshot a thread keeps in its variable top (0: None)
TopEntries(t) == {k \in DOMAIN held[t] : held[t][k] = "top"}
TopPtr(t) == IF TopEntries(t) = {} THEN 0 ELSE snap_ptr[t][MinOf(TopEntries(t))]

\* the block of the Arc a thread keeps in new_node
NewNode(t) == CHOOSE b \in DOMAIN arcs[t] : arcs[t][b] > 0

\* the fields val and next of a node
ValOf(b) == (CHOOSE f \in {fields[b][j] : j \in 1..Len(fields[b])} : f[1] = "val")[2]
NextOf(b) ==
    LET fs == {f \in {fields[b][j] : j \in 1..Len(fields[b])} : f[1] = "arc"}
    IN IF fs = {} THEN 0 ELSE (CHOOSE f \in fs : TRUE)[2]

\* a variable that holds Option<Snapshot> is assigned the Err value of a
\* compare_exchange: the names of the entries after the assignment
Reassigned(t, name) ==
    [k \in DOMAIN held[t] |->
        IF held[t][k] = name THEN "old"
        ELSE IF held[t][k] = "cas" THEN name
        ELSE held[t][k]]

\* the drop of the Snapshots that were given the name `name`
ReleaseTasks(t, name) ==
    LET ks == {k \in DOMAIN held[t] : held[t][k] = name}
    IN IF ks = {} THEN <<>> ELSE << <<"release", MinOf(ks), 0, 0>> >>

\* AtomicArc::compare_exchange called by a test, which goes on with progs[1]
\* after Ok and with progs[2] after Err
TestCas(t) ==
    /\ At(t, "test_cas")
    /\ LET c == Top(t)[2]
           cur == Top(t)[3][1]
           n == Top(t)[3][2]
           before == cell[c]
           ok == compare_exchange_ok(before, cur)
       IN /\ cell' = [cell EXCEPT ![c] = IF ok THEN n ELSE @]
          /\ stored' = [stored EXCEPT ![c] = IF ok THEN n ELSE @]
          /\ SetRet(t, "compare_exchange", IF ok THEN "Ok" ELSE "Err", cur, before)
          /\ Continue(t, cas_steps(c, n, before, ok, "snapshot")
                         \o << Top(t)[4][IF ok THEN 1 ELSE 2] >>)
    /\ UNCHANGED <<blockVars, testVars, smrVars, smrObs>>
    /\ UNCHANGED <<calls, is_dropped, fields, ctxVars>>

\* Drop for Snapshot: self.handle.release()
ReleaseStep(t) ==
    /\ At(t, "release")
    /\ LET k == Top(t)[2]
       IN /\ snap_ptr' = [snap_ptr EXCEPT ![t][k] = 0]
          /\ held' = [held EXCEPT ![t][k] = "none"]
          /\ Continue(t, << <<"detach_head", t, k, 0>> >>)
    /\ UNCHANGED <<in_cs, batch, cap, conflicts, primary, nodes, batches>>
    /\ UNCHANGED <<depth, retired, blockers, guards, executed>>
    /\ UNCHANGED <<blockVars, ret, testVars, cell, calls, stored, is_dropped, fields, ctxVars>>

\* Stack::default() and the threads of the first scope, each about to push
\* the value 0
InitStack ==
    /\ strong = [b \in Blocks |-> 0]
    /\ weak = [b \in Blocks |-> 0]
    /\ arcs = [t \in Threads |-> [b \in Blocks |-> 0]]
    /\ weaks = [t \in Threads |-> [b \in Blocks |-> 0]]
    /\ dropped = [b \in Blocks |-> 0]
    /\ freed = [b \in Blocks |-> 0]
    /\ pool = [b \in Blocks |-> [k \in Kinds |-> 0]]
    /\ zeroSeen = [b \in Blocks |-> FALSE]
    /\ cell = [c \in Cells |-> IF c = 1 THEN 0 ELSE NoCell]
    /\ calls = 0
    /\ stored = cell
    /\ is_dropped = FALSE
    /\ InitCtx
    /\ fields = [b \in Blocks |-> <<>>]
    /\ tasks = [t \in Threads |->
                   << <<(IF StackIters > 0 THEN "push" ELSE "joined"), 0, <<>>, 0>> >>]
    /\ ret = [t \in Threads |-> NoRet]
    /\ asserted = FALSE
    /\ InitTest
    /\ InitSmr

\* push: let mut top = self.top.load::<Snapshot<_>>()
StackPush(t) ==
    /\ At(t, "push")
    /\ CanProtect(t, MaxSnap)
    /\ protect(t)
    /\ Continue(t, << <<"ptr_load", 1, "snapshot", "top">>, <<"guard_drop", 0, 0, 0>>,
                      <<"push_new", Top(t)[2], Top(t)[3], 0>> >>)
    /\ UNCHANGED <<batch, cap, snap_ptr, conflicts, primary, nodes, batches>>
    /\ UNCHANGED <<held, retired, blockers, guards, executed>>
    /\ UNCHANGED <<blockVars, ret, testVars, cell, calls, stored, is_dropped, fields, ctxVars>>

\* push: next: top.as_ref().map(Arc::from), an increment of the strong count
PushNew(t) ==
    /\ At(t, "push_new")
    /\ Continue(t, (IF TopPtr(t) # 0
                    THEN << <<"increment_strong_count", TopPtr(t), 0, 0>> >> ELSE <<>>)
                   \o << <<"push_alloc", Top(t)[2], Top(t)[3], 0>> >>)
    /\ UNCHANGED <<blockVars, ret, testVars, smrVars, smrObs, cell, calls, stored, is_dropped, fields, ctxVars>>

\* push: let new_node = Arc::new(StackNode { val, next })
PushAlloc(t) ==
    /\ At(t, "push_alloc")
    /\ FreeBlocks # {}
    /\ LET b == MinOf(FreeBlocks)
           p == TopPtr(t)
       IN /\ strong' = [strong EXCEPT ![b] = 1]
          /\ weak' = [weak EXCEPT ![b] = 1]
          /\ dropped' = [dropped EXCEPT ![b] = 0]
          /\ freed' = [freed EXCEPT ![b] = 0]
          /\ arcs' = [arcs EXCEPT ![t][b] = 1]
          /\ fields' = [fields EXCEPT ![b] =
                           << <<"val", Top(t)[2]>> >>
                           \o (IF p # 0 THEN << <<"arc", p>> >> ELSE <<>>)]
    /\ Continue(t, << <<"push_cas", Top(t)[2], Top(t)[3], 0>> >>)
    /\ UNCHANGED <<zeroSeen, weaks, pool, asserted, ret>>
    /\ UNCHANGED <<testVars, smrVars, smrObs, cell, calls, stored, is_dropped, ctxVars>>

\* push: self.top.compare_exchange(top.as_ref(), Some(&new_node))
PushCas(t) ==
    /\ At(t, "push_cas")
    /\ CanProtect(t, MaxSnap)
    /\ protect(t)
    /\ Continue(t, << <<"test_cas", 1, <<TopPtr(t), NewNode(t)>>,
                        << <<"push_ok", Top(t)[2], Top(t)[3], 0>>,
                           <<"push_err", Top(t)[2], Top(t)[3], 0>> >> >> >>)
    /\ UNCHANGED <<batch, cap, snap_ptr, conflicts, primary, nodes, batches>>
    /\ UNCHANGED <<held, retired, blockers, guards, executed>>
    /\ UNCHANGED <<blockVars, ret, testVars, cell, calls, stored, is_dropped, fields, ctxVars>>

\* push: Ok(_) => break; new_node and top go out of scope, and the thread
\* pushes its next value or ends
PushOk(t) ==
    /\ At(t, "push_ok")
    /\ LET b == NewNode(t)
           i == Top(t)[2] + 1
       IN /\ arcs' = [arcs EXCEPT ![t][b] = @ - 1]
          /\ Continue(t, << <<"run_fn", b, "arc", 0>> >> \o ReleaseTasks(t, "top")
                         \o << <<(IF i < StackIters THEN "push" ELSE "joined"), i, <<>>, 0>> >>)
    /\ UNCHANGED <<strong, zeroSeen, weak, dropped, freed, weaks, pool, asserted, ret>>
    /\ UNCHANGED <<testVars, smrVars, smrObs, cell, calls, stored, is_dropped, fields, ctxVars>>

\* push: Err(before) => top = before; new_node goes out of scope and the loop
\* goes round
PushErr(t) ==
    /\ At(t, "push_err")
    /\ LET b == NewNode(t)
       IN /\ arcs' = [arcs EXCEPT ![t][b] = @ - 1]
          /\ held' = [held EXCEPT ![t] = Reassigned(t, "top")]
          /\ Continue(t, ReleaseTasks(t, "top") \o << <<"run_fn", b, "arc", 0>>,
                                                   <<"push_new", Top(t)[2], Top(t)[3], 0>> >>)
    /\ UNCHANGED <<strong, zeroSeen, weak, dropped, freed, weaks, pool, asserted, ret>>
    /\ UNCHANGED <<depth, retired, blockers, guards, executed>>
    /\ UNCHANGED <<testVars, smrVars, cell, calls, stored, is_dropped, fields, ctxVars>>

\* the step of its program a thread is at or will go back to
Prog(t) == tasks[t][Len(tasks[t])][1]

\* the second scope: it begins when every thread of the first was joined
PopStart(t) ==
    /\ At(t, "joined")
    /\ \A u \in Threads : Prog(u) \notin {"push", "push_new", "push_alloc", "push_cas",
                                          "push_ok", "push_err"}
    /\ Continue(t, << <<(IF StackIters > 0 THEN "pop" ELSE "done"), 0, <<>>, 0>> >>)
    /\ UNCHANGED <<blockVars, ret, testVars, smrVars, smrObs, cell, calls, stored, is_dropped, fields, ctxVars>>

\* pop: let mut top = self.top.load::<Snapshot<_>>()
StackPop(t) ==
    /\ At(t, "pop")
    /\ CanProtect(t, MaxSnap)
    /\ protect(t)
    /\ Continue(t, << <<"ptr_load", 1, "snapshot", "top">>, <<"guard_drop", 0, 0, 0>>,
                      <<"pop_loop", Top(t)[2], Top(t)[3], 0>> >>)
    /\ UNCHANGED <<batch, cap, snap_ptr, conflicts, primary, nodes, batches>>
    /\ UNCHANGED <<held, retired, blockers, guards, executed>>
    /\ UNCHANGED <<blockVars, ret, testVars, cell, calls, stored, is_dropped, fields, ctxVars>>

\* pop: while let Some(top_node) = top.as_ref() { compare_exchange(top.as_ref(),
\* top_node.next.as_ref()) }; after the loop None, on which the test's unwrap
\* panics
PopLoop(t) ==
    /\ At(t, "pop_loop")
    /\ IF TopPtr(t) = 0
       THEN /\ asserted' = TRUE
            /\ Continue(t, << <<"done", Top(t)[2], Top(t)[3], 0>> >>)
            /\ UNCHANGED <<in_cs, depth>>
       ELSE /\ CanProtect(t, MaxSnap)
            /\ protect(t)
            /\ Continue(t, << <<"test_cas", 1, <<TopPtr(t), NextOf(TopPtr(t))>>,
                                << <<"pop_ok", Top(t)[2], Top(t)[3], 0>>,
                                   <<"pop_err", Top(t)[2], Top(t)[3], 0>> >> >> >>)
            /\ UNCHANGED asserted
    /\ UNCHANGED <<batch, cap, snap_ptr, conflicts, primary, nodes, batches>>
    /\ UNCHANGED <<held, retired, blockers, guards, executed>>
    /\ UNCHANGED <<strong, zeroSeen, weak, dropped, freed, arcs, weaks, pool>>
    /\ UNCHANGED <<ret, testVars, cell, calls, stored, is_dropped, fields, ctxVars>>

\* pop: Ok(_) => return top; the test reads node.val and drops the node, and
\* the thread pops again or ends
PopOk(t) ==
    /\ At(t, "pop_ok")
    /\ LET i == Top(t)[2] + 1
           got == Append(Top(t)[3], <<TopPtr(t), ValOf(TopPtr(t))>>)
       IN Continue(t, ReleaseTasks(t, "top")
                      \o << <<(IF i < StackIters THEN "pop" ELSE "done"), i, got, 0>> >>)
    /\ UNCHANGED <<blockVars, ret, testVars, smrVars, smrObs, cell, calls, stored, is_dropped, fields, ctxVars>>

\* pop: Err(actual_top) => top = actual_top
PopErr(t) ==
    /\ At(t, "pop_err")
    /\ held' = [held EXCEPT ![t] = Reassigned(t, "top")]
    /\ Continue(t, ReleaseTasks(t, "top") \o << <<"pop_loop", Top(t)[2], Top(t)[3], 0>> >>)
    /\ UNCHANGED <<depth, retired, blockers, guards, executed>>
    /\ UNCHANGED <<blockVars, ret, testVars, smrVars, cell, calls, stored, is_dropped, fields, ctxVars>>

NextStack ==
    \/ \E t \in Threads : StackPush(t)
    \/ \E t \in Threads : PushNew(t)
    \/ \E t \in Threads : PushAlloc(t)
    \/ \E t \in Threads : PushCas(t)
    \/ \E t \in Threads : PushOk(t)
    \/ \E t \in Threads : PushErr(t)
    \/ \E t \in Threads : PopStart(t)
    \/ \E t \in Threads : StackPop(t)
    \/ \E t \in Threads : PopLoop(t)
    \/ \E t \in Threads : PopOk(t)
    \/ \E t \in Threads : PopErr(t)
    \/ \E t \in Threads : TestCas(t)
    \/ \E t \in Threads : ReleaseStep(t)
    \/ \E t \in Threads : PtrLoad(t)
    \/ \E t \in Threads : CloneFromRawV(t)
    \/ \E t \in Threads : GuardDrop(t)
    \/ \E t \in Threads : IncrementStrongCount(t)
    \/ \E t \in Threads : Retire(t)
    \/ \E t \in Threads : ScanSlot(t)
    \/ \E t \in Threads : ScanSnapshot(t)
    \/ \E t \in Threads : Insert(t)
    \/ \E t \in Threads : InsertLink(t)
    \/ \E t \in Threads : DecBatch(t)
    \/ \E t \in Threads : DetachHead(t)
    \/ \E t \in Threads : RunFn(t)

\* test_stack; no list of the reclaimer gets a second node here, so that no
\* node's next field is ever dropped
SpecStack == InitStack /\ [][NextStack]_vars

\* every thread has made its pops
AllDone == \A t \in Threads : At(t, "done")

\* the nodes the pops of all threads returned, as <<block, val>>
Popped(t) == {tasks[t][1][3][j] : j \in 1..Len(tasks[t][1][3])}
PopCount(v) ==
    SumOver([t \in Threads |->
                Cardinality({j \in 1..Len(tasks[t][1][3]) : tasks[t][1][3][j][2] = v})],
            Threads)

\* C21: in test_stack no pop finds the stack empty, no value is dropped
\* twice, and when every thread is done each value was popped once per
\* thread, no node was returned by two pops and the top cell is null.
C21_Stack ==
    /\ ~asserted
    /\ \A b \in Blocks : dropped[b] <= 1
    /\ AllDone =>
          /\ \A v \in 0..(StackIters - 1) : PopCount(v) = NThreads
          /\ Cardinality(UNION {Popped(t) : t \in Threads}) = NThreads * StackIters
          /\ cell[1] = 0

C21_Witness ==
    /\ AllDone
    /\ StackIters > 0
    /\ \E t \in Threads : \E u \in Threads \ {t} :
          /\ Popped(t) # {}
          /\ Popped(u) # {}
          /\ Popped(t) \cap Popped(u) = {}

(* test_sorted_linked_list (tests/integration_tests.rs): a sorted list whose
   nodes are std Arcs with an AtomicWeak prev and an AtomicArc next *)

\* iters_per_thread, and the values random::<usize>() is drawn from
ListIters == NBlocks \div NThreads
ListVals == 0..(NThreads * ListIters - 1)

\* the sentinel ListNode::default() and one block for each insertion
ListBlocks == 1..(NThreads * ListIters + 1)

\* list.head, and the cells next and prev of each node
HeadCell == 1
NextCell(b) == 2 * b
PrevCell(b) == 2 * b + 1
ListCells == 1..(2 * (NThreads * ListIters + 1) + 1)

\* curr_node, next and the Err value of compare_exchange are alive together
ListSnap == MaxSnap + 1

\* the nodes the lists of the reclaimer hold at a time
ListNodes == MaxNodes + 4

\* the pointer of the Snapshot a thread keeps in the variable `name` (0: None)
SnapOf(t, name) ==
    LET ks == {k \in DOMAIN held[t] : held[t][k] = name}
    IN IF ks = {} THEN 0 ELSE snap_ptr[t][MinOf(ks)]

\* AtomicWeak::store after the clone of the new pointer: the swap and the
\* retirement of the pointer it replaced
weak_swap_retire_then(t, c, new, rest) ==
    /\ cell' = [cell EXCEPT ![c] = new]
    /\ stored' = [stored EXCEPT ![c] = new]
    /\ IF cell[c] # 0
       THEN RetireBody(t, cell[c], "std_weak", 0, rest)
       ELSE /\ tasks' = [tasks EXCEPT ![t] = rest]
            /\ UNCHANGED <<batch, cap, batches>>

\* LinkedList { head: AtomicArc::new(Some(ListNode::default())) } and the
\* spawned threads, each about to call insert_sorted
InitList ==
    /\ strong = [b \in ListBlocks |-> IF b = 1 THEN 1 ELSE 0]
    /\ weak = [b \in ListBlocks |-> IF b = 1 THEN 1 ELSE 0]
    /\ arcs = [t \in Threads |-> [b \in ListBlocks |-> 0]]
    /\ weaks = [t \in Threads |-> [b \in ListBlocks |-> 0]]
    /\ dropped = [b \in ListBlocks |-> 0]
    /\ freed = [b \in ListBlocks |-> 0]
    /\ pool = [b \in ListBlocks |-> [k \in Kinds |-> 0]]
    /\ zeroSeen = [b \in ListBlocks |-> FALSE]
    /\ cell = [c \in ListCells |-> IF c = HeadCell THEN 1 ELSE 0]
    /\ calls = 0
    /\ stored = cell
    /\ is_dropped = FALSE
    /\ InitCtx
    /\ fields = [b \in ListBlocks |->
                    IF b = 1
                    THEN << <<"val", 0>>, <<"atomic_weak", PrevCell(1)>>,
                            <<"atomic_arc", NextCell(1)>> >>
                    ELSE <<>>]
    /\ tasks = [t \in Threads |->
                   << <<(IF ListIters > 0 THEN "ins" ELSE "inserted"), 0, 0, <<>> >> >>]
    /\ ret = [t \in Threads |-> NoRet]
    /\ asserted = FALSE
    /\ InitTest
    /\ in_cs = [s \in Threads |-> FALSE]
    /\ batch = [s \in Threads |-> <<>>]
    /\ cap = [s \in Threads |-> 0]
    /\ snap_ptr = [s \in Threads |-> [k \in 1..SNAPSHOT_PTRS_PER_NODE |-> 0]]
    /\ conflicts = [s \in Threads |-> [k \in 1..ListSnap |-> 0]]
    /\ primary = [s \in Threads |-> 0]
    /\ nodes = [n \in 1..ListNodes |-> NoNode]
    /\ batches = [i \in BatchIds |-> NoBatch]
    /\ depth = [s \in Threads |-> 0]
    /\ held = [s \in Threads |-> [k \in 1..ListSnap |-> "none"]]
    /\ retired = [r \in RetireIds |-> 0]
    /\ blockers = [r \in RetireIds |-> {}]
    /\ guards = [r \in RetireIds |-> {}]
    /\ executed = [r \in RetireIds |-> 0]

\* insert_sorted: let mut curr_node = self.head.load::<Snapshot<_>>().unwrap(),
\* with val a random value
ListInsert(t) ==
    /\ At(t, "ins")
    /\ CanProtect(t, ListSnap)
    /\ protect(t)
    /\ \E v \in ListVals :
          Continue(t, << <<"ptr_load", HeadCell, "snapshot", "curr">>,
                         <<"guard_drop", 0, 0, 0>>,
                         <<"ins_next", Top(t)[2], v, Top(t)[4]>> >>)
    /\ UNCHANGED <<batch, cap, snap_ptr, conflicts, primary, nodes, batches>>
    /\ UNCHANGED <<held, retired, blockers, guards, executed>>
    /\ UNCHANGED <<blockVars, ret, testVars, cell, calls, stored, is_dropped, fields, ctxVars>>

\* insert_sorted: next = curr_node.next.load::<Snapshot<_>>()
InsNext(t) ==
    /\ At(t, "ins_next")
    /\ CanProtect(t, ListSnap)
    /\ protect(t)
    /\ Continue(t, << <<"ptr_load", NextCell(SnapOf(t, "curr")), "snapshot", "next">>,
                      <<"guard_drop", 0, 0, 0>>,
                      <<"ins_loop", Top(t)[2], Top(t)[3], Top(t)[4]>> >>)
    /\ UNCHANGED <<batch, cap, snap_ptr, conflicts, primary, nodes, batches>>
    /\ UNCHANGED <<held, retired, blockers, guards, executed>>
    /\ UNCHANGED <<blockVars, ret, testVars, cell, calls, stored, is_dropped, fields, ctxVars>>

\* insert_sorted: if next.is_none() || val < next.val, the fields of the new
\* node are made (AtomicWeak::from(&curr_node), AtomicArc::from(next)), else
\* curr_node = next.unwrap() and next is loaded again
InsLoop(t) ==
    /\ At(t, "ins_loop")
    /\ LET c == SnapOf(t, "curr")
           n == SnapOf(t, "next")
       IN IF n = 0 \/ Top(t)[3] < ValOf(n)
          THEN /\ Continue(t, << <<"weak_clone", c, 0, 0>> >>
                              \o (IF n # 0
                                  THEN << <<"increment_strong_count", n, 0, 0>> >>
                                  ELSE <<>>)
                              \o << <<"ins_alloc", Top(t)[2], Top(t)[3], Top(t)[4]>> >>)
               /\ UNCHANGED held
          ELSE /\ held' = [held EXCEPT ![t] =
                              [k \in DOMAIN held[t] |->
                                  IF held[t][k] = "curr" THEN "old"
                                  ELSE IF held[t][k] = "next" THEN "curr"
                                  ELSE held[t][k]]]
               /\ Continue(t, ReleaseTasks(t, "curr")
                              \o << <<"ins_next", Top(t)[2], Top(t)[3], Top(t)[4]>> >>)
    /\ UNCHANGED <<depth, retired, blockers, guards, executed>>
    /\ UNCHANGED <<blockVars, ret, testVars, smrVars, cell, calls, stored, is_dropped, fields, ctxVars>>

\* insert_sorted: let new = Arc::new(ListNode { val, prev, next })
InsAlloc(t) ==
    /\ At(t, "ins_alloc")
    /\ {b \in ListBlocks : weak[b] = 0} # {}
    /\ LET b == MinOf({x \in ListBlocks : weak[x] = 0})
       IN /\ strong' = [strong EXCEPT ![b] = 1]
          /\ weak' = [weak EXCEPT ![b] = 1]
          /\ dropped' = [dropped EXCEPT ![b] = 0]
          /\ freed' = [freed EXCEPT ![b] = 0]
          /\ arcs' = [arcs EXCEPT ![t][b] = 1]
          /\ fields' = [fields EXCEPT ![b] =
                           << <<"val", Top(t)[3]>>, <<"atomic_weak", PrevCell(b)>>,
                              <<"atomic_arc", NextCell(b)>> >>]
          /\ cell' = [cell EXCEPT ![PrevCell(b)] = SnapOf(t, "curr"),
                                  ![NextCell(b)] = SnapOf(t, "next")]
          /\ stored' = [stored EXCEPT ![PrevCell(b)] = SnapOf(t, "curr"),
                                      ![NextCell(b)] = SnapOf(t, "next")]
    /\ Continue(t, << <<"ins_cas", Top(t)[2], Top(t)[3], Top(t)[4]>> >>)
    /\ UNCHANGED <<zeroSeen, weaks, pool, asserted, ret>>
    /\ UNCHANGED <<testVars, smrVars, smrObs, calls, is_dropped, ctxVars>>

\* insert_sorted: curr_node.next.compare_exchange(next.as_ref(), Some(&new))
InsCas(t) ==
    /\ At(t, "ins_cas")
    /\ CanProtect(t, ListSnap)
    /\ protect(t)
    /\ Continue(t, << <<"test_cas", NextCell(SnapOf(t, "curr")),
                        <<SnapOf(t, "next"), NewNode(t)>>,
                        << <<"ins_ok", Top(t)[2], Top(t)[3], Top(t)[4]>>,
                           <<"ins_err", Top(t)[2], Top(t)[3], Top(t)[4]>> >> >> >>)
    /\ UNCHANGED <<batch, cap, snap_ptr, conflicts, primary, nodes, batches>>
    /\ UNCHANGED <<held, retired, blockers, guards, executed>>
    /\ UNCHANGED <<blockVars, ret, testVars, cell, calls, stored, is_dropped, fields, ctxVars>>

\* insert_sorted: Ok(_): if let Some(next_node) = next, the Weak of
\* Arc::downgrade(&new) is stored in next_node.prev and dropped, next_node is
\* dropped; break, and new and curr_node go out of scope
InsOk(t) ==
    /\ At(t, "ins_ok")
    /\ LET b == NewNode(t)
           n == SnapOf(t, "next")
           i == Top(t)[2] + 1
       IN /\ arcs' = [arcs EXCEPT ![t][b] = @ - 1]
          /\ weak' = IF n # 0 THEN [weak EXCEPT ![b] = wrapping_add(@, 1)] ELSE weak
          /\ Continue(t, (IF n # 0
                          THEN << <<"weak_clone", b, 0, 0>>,
                                  <<"ins_store", PrevCell(n), b, 0>>,
                                  <<"run_fn", b, "std_weak", 0>> >>
                               \o ReleaseTasks(t, "next")
                          ELSE <<>>)
                         \o << <<"run_fn", b, "arc", 0>> >>
                         \o ReleaseTasks(t, "curr")
                         \o << <<(IF i < ListIters THEN "ins" ELSE "inserted"),
                                 i, 0, Append(Top(t)[4], <<b, n>>)>> >>)
    /\ UNCHANGED <<strong, zeroSeen, dropped, freed, weaks, pool, asserted, ret>>
    /\ UNCHANGED <<testVars, smrVars, smrObs, cell, calls, stored, is_dropped, fields, ctxVars>>

\* AtomicWeak::store: self.ptr.swap(ptr) and the retirement of before
InsStore(t) ==
    /\ At(t, "ins_store")
    /\ weak_swap_retire_then(t, Top(t)[2], Top(t)[3], Tail(tasks[t]))
    /\ UNCHANGED <<in_cs, snap_ptr, conflicts, primary, nodes>>
    /\ UNCHANGED <<blockVars, ret, testVars, smrObs>>
    /\ UNCHANGED <<calls, is_dropped, fields, ctxVars>>

\* insert_sorted: Err(actual_next) => next = actual_next; new goes out of
\* scope and the loop goes round
InsErr(t) ==
    /\ At(t, "ins_err")
    /\ LET b == NewNode(t)
       IN /\ arcs' = [arcs EXCEPT ![t][b] = @ - 1]
          /\ held' = [held EXCEPT ![t] = Reassigned(t, "next")]
          /\ Continue(t, ReleaseTasks(t, "next")
                         \o << <<"run_fn", b, "arc", 0>>,
                               <<"ins_loop", Top(t)[2], Top(t)[3], Top(t)[4]>> >>)
    /\ UNCHANGED <<strong, zeroSeen, weak, dropped, freed, weaks, pool, asserted, ret>>
    /\ UNCHANGED <<depth, retired, blockers, guards, executed>>
    /\ UNCHANGED <<testVars, smrVars, cell, calls, stored, is_dropped, fields, ctxVars>>

NextList ==
    \/ \E t \in Threads : ListInsert(t)
    \/ \E t \in Threads : InsNext(t)
    \/ \E t \in Threads : InsLoop(t)
    \/ \E t \in Threads : InsAlloc(t)
    \/ \E t \in Threads : InsCas(t)
    \/ \E t \in Threads : InsOk(t)
    \/ \E t \in Threads : InsStore(t)
    \/ \E t \in Threads : InsErr(t)
    \/ \E t \in Threads : TestCas(t)
    \/ \E t \in Threads : ReleaseStep(t)
    \/ \E t \in Threads : PtrLoad(t)
    \/ \E t \in Threads : CloneFromRawV(t)
    \/ \E t \in Threads : GuardDrop(t)
    \/ \E t \in Threads : IncrementStrongCount(t)
    \/ \E t \in Threads : ManuallyDropClone(t)
    \/ \E t \in Threads : Retire(t)
    \/ \E t \in Threads : ScanSlot(t)
    \/ \E t \in Threads : ScanSnapshot(t)
    \/ \E t \in Threads : Insert(t)
    \/ \E t \in Threads : InsertLink(t)
    \/ \E t \in Threads : DecBatch(t)
    \/ \E t \in Threads : DecNode(t)
    \/ \E t \in Threads : DetachHead(t)
    \/ \E t \in Threads : RunFn(t)

SpecList == InitList /\ [][NextList]_vars

\* the threads were joined: every insert_sorted returned
AllInserted == \A t \in Threads : At(t, "inserted")

\* what a thread's insertions did, as <<new node, node whose prev it stored>>
InsertedBy(t) == {tasks[t][1][4][j] : j \in 1..Len(tasks[t][1][4])}

\* the nodes a forward traversal from b visits in at most n steps
RECURSIVE Forward(_, _)
Forward(b, n) ==
    IF b = 0 \/ n = 0 THEN <<>> ELSE <<b>> \o Forward(cell[NextCell(b)], n - 1)

\* the traversal of the test's final loop, the sentinel first
ListSeq == Forward(cell[HeadCell], NThreads * ListIters + 2)

\* curr_node.prev.upgrade(): the block of the Arc it returns (0: None)
PrevUpgrade(b) ==
    LET p == cell[PrevCell(b)]
    IN IF p # 0 /\ strong[p] > 0 THEN p ELSE 0

\* C22: when every thread has completed its insertions, a forward traversal
\* from the head visits the sentinel and then exactly NThreads * ListIters
\* nodes, every inserted node among them, each alive, in non-decreasing order
\* of val; and no Snapshot a thread holds is ever on a dropped value.
C22_SortedList ==
    /\ \A t \in Threads : \A k \in 1..Len(snap_ptr[t]) :
          snap_ptr[t][k] # 0 =>
             dropped[snap_ptr[t][k]] = 0 /\ freed[snap_ptr[t][k]] = 0
    /\ AllInserted =>
          /\ Len(ListSeq) = NThreads * ListIters + 1
          /\ \A j \in 1..(Len(ListSeq) - 1) : ValOf(ListSeq[j]) <= ValOf(ListSeq[j + 1])
          /\ \A j \in 1..Len(ListSeq) :
                strong[ListSeq[j]] > 0 /\ dropped[ListSeq[j]] = 0
          /\ \A t \in Threads : \A e \in InsertedBy(t) :
                \E j \in 2..Len(ListSeq) : ListSeq[j] = e[1]

C22_Witness ==
    /\ AllInserted
    /\ Len(ListSeq) > 2
    /\ ValOf(ListSeq[2]) < ValOf(ListSeq[Len(ListSeq)])
    /\ \E t \in Threads : \E u \in Threads \ {t} :
          InsertedBy(t) # {} /\ InsertedBy(u) # {}

WeakReleaseAhead(b) ==
    \E t \in Threads : \E j \in 1..Len(tasks[t]) :
       /\ tasks[t][j][2] = b
       /\ \/ tasks[t][j][1] = "weak_drop"
          \/ tasks[t][j][1] = "retire" /\ tasks[t][j][3] = "weak"

\* C31: once the strong-drop closure that dropped a block's value has run to
\* its end, the block's weak count was decremented by it: a block whose value
\* was dropped and that has no weak handle left (its weak count is the one
\* reference the strong handles shared) is freed as soon as no thread still
\* has that release ahead of it.
C31_InlineWeakDrop ==
    \A b \in Blocks :
       (dropped[b] > 0 /\ freed[b] = 0 /\ weak[b] = 1) => WeakReleaseAhead(b)

(* compare_exchange of an AtomicArc (cell 1) and of an AtomicWeak (cell 2) *)

\* an AtomicArc and an AtomicWeak made from block 1, and a thread that holds
\* an Arc on every block
InitCas ==
    /\ cell = [c \in Cells |-> IF c <= 2 THEN 1 ELSE NoCell]
    /\ calls = 0
    /\ stored = cell
    /\ is_dropped = FALSE
    /\ InitCtx
    /\ fields = [b \in Blocks |-> <<>>]
    /\ strong = [b \in Blocks |-> IF b = 1 THEN 2 ELSE 1]
    /\ weak = [b \in Blocks |-> IF b = 1 THEN 2 ELSE 1]
    /\ arcs = [t \in Threads |-> [b \in Blocks |-> IF t = NThreads THEN 1 ELSE 0]]
    /\ weaks = [t \in Threads |-> [b \in Blocks |-> 0]]
    /\ dropped = [b \in Blocks |-> 0]
    /\ freed = [b \in Blocks |-> 0]
    /\ pool = [b \in Blocks |-> [k \in Kinds |-> 0]]
    /\ zeroSeen = [b \in Blocks |-> FALSE]
    /\ InitThreads
    /\ InitTest
    /\ InitSmr

NextCas ==
    \/ \E t \in Threads, cur \in {0} \cup Blocks, new \in {0} \cup Blocks, V \in Returns :
          AtomicArcCompareExchange(t, 1, cur, new, V)
    \/ \E t \in Threads : Cas(t)
    \/ \E t \in Threads : IncrementStrongCount(t)
    \/ \E t \in Threads : CloneFromRawV(t)
    \/ \E t \in Threads, cur \in {0} \cup Blocks, new \in {0} \cup Blocks :
          AtomicWeakCompareExchange(t, 2, cur, new)
    \/ \E t \in Threads : WeakCas(t)
    \/ \E t \in Threads : ManuallyDropClone(t)
    \/ \E t \in Threads : WeakCloneFromRaw(t)
    \/ \E t \in Threads : GuardDrop(t)
    \/ \E t \in Threads : ReclaimerStep(t)

SpecCas == InitCas /\ [][NextCas]_vars

\* the steps a compare_exchange makes with its result in hand, before the
\* return: the increment of a count and the clone of the observed pointer
CasCountSteps == {"increment_strong_count", "weak_clone", "clone_from_raw_v",
                  "weak_clone_from_raw"}

\* C32: a thread is in its critical section when it makes the atomic
\* compare-exchange of an AtomicArc or AtomicWeak compare_exchange, when it
\* increments a count for the pointer stored and when it clones the observed
\* pointer for the Err value; it issues no retirement before the guard is
\* dropped, and it is out of the critical section when it retires the
\* displaced pointer.
C32_RetireAfterGuard ==
    \A t \in Threads :
       /\ (At(t, "cas") \/ At(t, "weak_cas")) => in_cs[t]
       /\ (Returned(t, "compare_exchange") /\ tasks[t] # <<>>) =>
             /\ in_cs[t]
             /\ Top(t)[1] \in CasCountSteps \cup {"guard_drop"}
       /\ At(t, "retire") => ~in_cs[t]

C32_Witness ==
    \E t \in Threads :
       /\ At(t, "retire")
       /\ Top(t)[3] = "std_weak"
       /\ ~in_cs[t]
       /\ \E s \in Threads : \E j \in 1..Len(batch[s]) : batch[s][j][2] = "arc"

(* StandardReclaimer::retire: the local batch and its capacity *)

\* borrowed.functions.capacity() after the push: an empty Vec::new() grows
\* to the least non-zero capacity
Capacity(s) == IF cap[s] = 0 THEN MIN_NON_ZERO_CAP ELSE cap[s]

\* a step in which thread t's retire pushes on its local batch and returns
Appends(t) == Len(batch'[t]) = Len(batch[t]) + 1

\* a step in which thread t's retire publishes its batch
Publishes(t) ==
    /\ tasks'[t] # tasks[t]
    /\ Len(batch'[t]) <= Len(batch[t])
    /\ \E i \in BatchIds :
          /\ batches[i] = NoBatch
          /\ batches'[i] # NoBatch
          /\ Len(batches'[i].fns) = Len(batch[t]) + 1
          /\ SubSeq(batches'[i].fns, 1, Len(batch[t])) = batch[t]

\* C35: a retire that leaves the local batch below its capacity only appends
\* to that batch: it publishes nothing, touches no list of any slot, runs no
\* closure and leaves the thread no step of a scan or closure; a retire that
\* publishes happens only when the batch is full, and leaves an empty batch
\* whose capacity is the number of slot-table nodes times SLOTS_PER_NODE.
C35_RetireBelowCapacity ==
    [][\A t \in Threads :
          /\ Appends(t) =>
                /\ Len(batch[t]) + 1 < Capacity(t)
                /\ UNCHANGED <<batches, nodes, primary, conflicts, executed>>
                /\ UNCHANGED <<strong, weak, dropped, freed>>
                /\ \A s \in Threads \ {t} : batch'[s] = batch[s]
                /\ tasks'[t] = IF Idle(t) THEN <<>> ELSE Tail(tasks[t])
          /\ Publishes(t) =>
                /\ Len(batch[t]) + 1 >= Capacity(t)
                /\ batch'[t] = <<>>
                /\ cap'[t] = get_nodes_count * SLOTS_PER_NODE]_vars

C35_Witness ==
    \E t \in Threads :
       /\ batch[t] = <<>>
       /\ cap[t] = get_nodes_count * SLOTS_PER_NODE
       /\ \E i \in BatchIds :
             /\ batches[i].rc > 0
             /\ Len(batches[i].fns) = cap[t]
             /\ cap[t] > 1

(* A retire from inside a closure that retire is running *)

\* the closures drop(Weak::from_raw(b)) that are retired and have not run,
\* in a call of retire, in a local batch or in a published batch
PendingWeak(b) ==
    SumOver([t \in Threads |->
                CountIn(batch[t], <<b, "weak", 0>>)
                + Cardinality({j \in 1..Len(tasks[t]) :
                      /\ tasks[t][j][2] = b
                      /\ \/ tasks[t][j][1] = "weak_drop"
                         \/ /\ tasks[t][j][1] \in {"retire", "run_fn"}
                            /\ tasks[t][j][3] = "weak"})], Threads)
    + SumOver([i \in BatchIds |-> CountIn(batches[i].fns, <<b, "weak", 0>>)], BatchIds)

\* the Weak handles on b that are fields of values not yet dropped
WeakFields(b) ==
    Cardinality({e \in Blocks \X (1..MaxHandles) :
                    /\ dropped[e[1]] = 0
                    /\ e[2] <= Len(fields[e[1]])
                    /\ fields[e[1]][e[2]] = <<"weak", b>>})

\* C36: the retire that a strong closure makes for the Weak of its block,
\* while the reclaimer runs that closure, pushes on the thread's local batch
\* as any retire does (on the fresh batch when the closure's own batch was
\* published out of it) and touches no published batch; so the retirement is
\* neither lost nor run twice: the weak count of a dropped block that is not
\* freed is the number of Weak handles and pending Weak drops on it, and a
\* freed block has none pending.
C36_Reentrant ==
    /\ [][\A t \in Threads :
            (At(t, "retire") /\ Top(t)[3] = "weak" /\ tasks'[t] # tasks[t]) =>
                LET fns == Append(batch[t], <<Top(t)[2], "weak", 0>>)
                IN /\ \A i \in BatchIds : batches[i].rc > 0 => batches'[i] = batches[i]
                   /\ \/ batch'[t] = fns /\ batches' = batches
                      \/ /\ batch'[t] = <<>>
                         /\ \E i \in BatchIds :
                               /\ batches[i].rc = 0
                               /\ batches'[i] = [fns |-> fns, rc |-> 1]]_vars
    /\ [](\A b \in Blocks :
            /\ (dropped[b] > 0 /\ freed[b] = 0) =>
                  weak[b] = WeakHandles(b) + WeakFields(b) + PendingWeak(b)
            /\ freed[b] > 0 => (freed[b] = 1 /\ PendingWeak(b) = 0))

\* the closure of a published batch has retired the Weak of its block into
\* the fresh local batch while the rest of its batch is still to run
C36_Witness ==
    \E t \in Threads : \E b \in Blocks :
       /\ CountIn(batch[t], <<b, "weak", 0>>) = 1
       /\ dropped[b] = 1
       /\ freed[b] = 0
       /\ \E j \in 1..Len(tasks[t]) : tasks[t][j][1] = "run_fn"

(* CollectionList: insert against detach_head *)

\* !ptr.is_null(): what detach_head returns for the head it swapped out
detach_head_result(ptr) == ptr # 0

\* the lists: the primary list of a slot and the conflicts of its snapshots
Lists == {<<s, k>> : s \in Threads, k \in {0} \cup Entries}

\* the references to node n: the heads and next links that point to it, the
\* insert that still holds it (as its new node or as the head it swapped
\* out) and the drops of it that are about to run
NodeHolders(n) ==
    Cardinality({l \in Lists : head(l) = n})
    + Cardinality({m \in DOMAIN nodes : nodes[m].rc > 0 /\ nodes[m].next = n})
    + Steps("insert_link", 2, n)
    + Steps("insert_link", 3, n)
    + Steps("dec_node", 2, n)

\* the references to batch i: the nodes that hold it and the drops of it
\* that are about to run (that of the retire that published it is one)
BatchHolders(i) ==
    Cardinality({m \in DOMAIN nodes : nodes[m].rc > 0 /\ nodes[m].batch = i})
    + Steps("dec_batch", 2, i)

\* C40: the node an insert is about to link is not freed; the count of a
\* node is the number of its holders and the count of a batch the number of
\* its holders, so no reference is released twice and none is left over:
\* once every call has returned, every node is on a list, and a detach_head
\* takes the whole list; detach_head empties the list and releases one
\* reference of the head it swapped out, which is there exactly when it
\* returns true.
C40_CollectionList ==
    /\ [](\A t \in Threads :
            At(t, "insert_link") => nodes[Top(t)[2]].rc >= 1)
    /\ [](\A n \in DOMAIN nodes : nodes[n].rc = NodeHolders(n))
    /\ [](\A i \in BatchIds : batches[i].rc = BatchHolders(i))
    /\ []((\A t \in Threads : Idle(t)) =>
            /\ \A n \in DOMAIN nodes :
                  nodes[n].rc > 0 =>
                     \/ \E l \in Lists : head(l) = n
                     \/ \E m \in DOMAIN nodes : nodes[m].rc > 0 /\ nodes[m].next = n
            /\ (\A l \in Lists : head(l) = 0) =>
                  /\ \A n \in DOMAIN nodes : nodes[n] = NoNode
                  /\ \A i \in BatchIds : batches[i] = NoBatch)
    /\ [][\A t \in Threads :
            (At(t, "detach_head") /\ tasks'[t] # tasks[t]) =>
                LET l == <<Top(t)[2], Top(t)[3]>>
                    ptr == head(l)
                IN /\ primary'[l[1]] = IF l[2] = 0 THEN 0 ELSE primary[l[1]]
                   /\ l[2] # 0 => conflicts'[l[1]][l[2]] = 0
                   /\ detach_head_result(ptr) <=> nodes' # nodes
                   /\ detach_head_result(ptr) =>
                         \/ nodes'[ptr] = [nodes[ptr] EXCEPT !.rc = @ - 1]
                         \/ nodes[ptr].rc = 1 /\ nodes'[ptr] = NoNode]_vars

\* a detach_head has taken the node that an insert has swapped in and is
\* yet to link to the head it swapped out
C40_Witness ==
    \E t \in Threads :
       /\ At(t, "insert_link")
       /\ nodes[Top(t)[2]].rc = 1
       /\ Top(t)[3] # 0
       /\ \A l \in Lists : head(l) # Top(t)[2]

----------------------------------------------------------------------------
(* shared_ptrs: Arc and Weak that hold their reclaimer's drop flag, and the
   drop of the reclaimer *)

\* the Arc fields of the value of block b
SharedFieldDrops(b) ==
    [j \in 1..Len(fields[b]) |-> <<"shared_arc_drop", fields[b][j][2], 0, 0>>]

\* a Drop for Arc that retires its closure whatever the drop flag says
shared_arc_drop_retire(b) ==
    IF strong[b] = 1
    THEN << <<"retire", b, "shared_value", 0>> >>
    ELSE <<>>

\* Drop for Arc, after strong.fetch_sub(1) has returned strong[b]:
\* with the drop flag set drop_in_place and the drop of the Weak follow at
\* once, otherwise the reclaimer is given the closure that does both
shared_arc_drop(b) ==
    IF strong[b] = 1
    THEN IF is_dropped
         THEN << <<"drop_in_place", b, 0, 0>>, <<"shared_weak_drop", b, 0, 0>> >>
         ELSE << <<"retire", b, "shared_value", 0>> >>
    ELSE <<>>

\* Drop for Weak, after weak.fetch_sub(1) has returned weak[b]
shared_weak_drop(b) ==
    IF weak[b] = 1
    THEN IF is_dropped
         THEN << <<"dealloc", b, 0, 0>> >>
         ELSE << <<"retire", b, "shared_dealloc", 0>> >>
    ELSE <<>>

\* a thread drops one of its Arcs
SharedArcDrop(t, b) ==
    /\ Idle(t)
    /\ ~is_dropped
    /\ arcs[t][b] > 0
    /\ arcs' = [arcs EXCEPT ![t][b] = @ - 1]
    /\ Start(t, << <<"shared_arc_drop", b, 0, 0>> >>)
    /\ UNCHANGED <<strong, zeroSeen, ret, weak, dropped, freed, weaks, pool, asserted,
                   testVars, smrVars, smrObs, cell, calls, stored, is_dropped, fields, ctxVars>>

\* a thread drops one of its Weaks
SharedWeakDrop(t, b) ==
    /\ Idle(t)
    /\ ~is_dropped
    /\ weaks[t][b] > 0
    /\ weaks' = [weaks EXCEPT ![t][b] = @ - 1]
    /\ Start(t, << <<"shared_weak_drop", b, 0, 0>> >>)
    /\ UNCHANGED <<strong, zeroSeen, ret, weak, dropped, freed, arcs, pool, asserted,
                   testVars, smrVars, smrObs, cell, calls, stored, is_dropped, fields, ctxVars>>

\* if (*inner).strong.fetch_sub(1, SeqCst) == 1 { ... }
SharedArcDropStep(t) ==
    /\ At(t, "shared_arc_drop")
    /\ LET b == Top(t)[2]
       IN /\ strong' = [strong EXCEPT ![b] = @ - 1]
          /\ Continue(t, shared_arc_drop(b))
    /\ UNCHANGED <<zeroSeen, ret, weak, dropped, freed, arcs, weaks, pool, asserted,
                   testVars, smrVars, smrObs, cell, calls, stored, is_dropped, fields, ctxVars>>

\* if (*inner).weak.fetch_sub(1, SeqCst) == 1 { ... }
SharedWeakDropStep(t) ==
    /\ At(t, "shared_weak_drop")
    /\ LET b == Top(t)[2]
       IN /\ weak' = [weak EXCEPT ![b] = @ - 1]
          /\ Continue(t, shared_weak_drop(b))
    /\ UNCHANGED <<strong, zeroSeen, ret, dropped, freed, arcs, weaks, pool, asserted,
                   testVars, smrVars, smrObs, cell, calls, stored, is_dropped, fields, ctxVars>>

\* ptr::drop_in_place::<T>(inner.cast()): the value goes, and its fields
SharedDropInPlace(t) ==
    /\ At(t, "drop_in_place")
    /\ LET b == Top(t)[2]
       IN /\ dropped' = [dropped EXCEPT ![b] = @ + 1]
          /\ Continue(t, SharedFieldDrops(b))
    /\ UNCHANGED <<strong, zeroSeen, ret, weak, freed, arcs, weaks, pool, asserted,
                   testVars, smrVars, smrObs, cell, calls, stored, is_dropped, fields, ctxVars>>

\* dealloc(inner.cast(), Layout::new::<ArcInner<T, R>>())
SharedDealloc(t) ==
    /\ At(t, "dealloc")
    /\ freed' = [freed EXCEPT ![Top(t)[2]] = @ + 1]
    /\ Continue(t, <<>>)
    /\ UNCHANGED <<strong, zeroSeen, ret, weak, dropped, arcs, weaks, pool, asserted,
                   testVars, smrVars, smrObs, cell, calls, stored, is_dropped, fields, ctxVars>>

\* the closures that Drop for Arc and Drop for Weak give to retire
SharedRunFn(t) ==
    /\ At(t, "run_fn")
    /\ LET b == Top(t)[2]
       IN IF Top(t)[3] = "shared_value"
          THEN Continue(t, << <<"drop_in_place", b, 0, 0>>, <<"shared_weak_drop", b, 0, 0>> >>)
          ELSE Continue(t, << <<"dealloc", b, 0, 0>> >>)
    /\ UNCHANGED <<blockVars, ret, testVars, smrVars, smrObs, cell, calls, stored,
                   is_dropped, fields, ctxVars>>

\* the last thread holds a Weak on block 1, and there is one Arc handle on
\* every block; either the blocks are a chain (the value of every block but
\* the first holds an Arc on the block before it, and thread 1 has the
\* handles) or they are apart (and the threads share the handles out)
InitShared ==
    /\ \E chain \in BOOLEAN :
          /\ fields = [b \in Blocks |->
                          IF chain /\ b > 1 THEN << <<"shared_arc", b - 1>> >> ELSE <<>>]
          /\ arcs = [t \in Threads |-> [b \in Blocks |->
                        IF t = (IF chain THEN 1 ELSE ((b - 1) % NThreads) + 1)
                        THEN 1 ELSE 0]]
          /\ strong = [b \in Blocks |-> IF chain /\ b < NBlocks THEN 2 ELSE 1]
    /\ weaks = [t \in Threads |-> [b \in Blocks |-> IF t = NThreads /\ b = 1 THEN 1 ELSE 0]]
    /\ weak = [b \in Blocks |-> IF b = 1 THEN 2 ELSE 1]
    /\ dropped = [b \in Blocks |-> 0]
    /\ freed = [b \in Blocks |-> 0]
    /\ pool = [b \in Blocks |-> [k \in Kinds |-> 0]]
    /\ zeroSeen = [b \in Blocks |-> FALSE]
    /\ cell = [c \in Cells |-> 0]
    /\ calls = 0
    /\ stored = cell
    /\ is_dropped = FALSE
    /\ InitCtx
    /\ InitThreads
    /\ InitTest
    /\ InitSmr

\* Drop for StandardReclaimer; the reclaimer outlives every Arc and Weak
\* (the lifetime 'a of Arc<'a, T, R>)
SharedReclaimerDrop(t) ==
    /\ \A u \in Threads, b \in Blocks : arcs[u][b] = 0 /\ weaks[u][b] = 0
    /\ ReclaimerDrop(t)

NextShared ==
    \/ \E t \in Threads, b \in Blocks : SharedArcDrop(t, b)
    \/ \E t \in Threads, b \in Blocks : SharedWeakDrop(t, b)
    \/ \E t \in Threads : SharedArcDropStep(t)
    \/ \E t \in Threads : SharedWeakDropStep(t)
    \/ \E t \in Threads : SharedDropInPlace(t)
    \/ \E t \in Threads : SharedDealloc(t)
    \/ \E t \in Threads : SharedRunFn(t)
    \/ \E t \in Threads : Retire(t)
    \/ \E t \in Threads : ScanSlot(t)
    \/ \E t \in Threads : ScanSnapshot(t)
    \/ \E t \in Threads : Insert(t)
    \/ \E t \in Threads : InsertLink(t)
    \/ \E t \in Threads : DecNode(t)
    \/ \E t \in Threads : DecBatch(t)
    \/ \E t \in Threads : DetachHead(t)
    \/ \E t \in Threads : TakeBatch(t)
    \/ \E t \in Threads : ~is_dropped /\ BeginCriticalSection(t, 1)
    \/ \E t \in Threads : ~is_dropped /\ EndCriticalSection(t)
    \/ \E t \in Threads, b \in Blocks :
          ~is_dropped /\ ProtectPtr(t, b, SNAPSHOT_PTRS_PER_NODE)
    \/ \E t \in Threads, k \in Entries : ~is_dropped /\ Release(t, k)
    \/ \E t \in Threads : SharedReclaimerDrop(t)

SpecShared == InitShared /\ [][NextShared]_vars

\* the retirements that wait in slot s: in its batch, in its primary list
\* or in the conflicts of its snapshots
SlotPending(s) ==
    \/ batch[s] # <<>>
    \/ primary[s] # 0
    \/ \E k \in Entries : conflicts[s][k] # 0

\* C37: the drop of the reclaimer sets the drop flag before it runs any
\* closure; once the flag is set no drop of an Arc or a Weak retires, the
\* drops that the closures cascade into included; and when the drop has
\* returned no slot has anything in its batch, in its primary list or in the
\* conflicts of its snapshots, no node or batch is left, and every value
\* whose last Arc was dropped has been dropped and its block freed with its
\* last Weak.
C37_ReclaimerDrop ==
    /\ [][\A t \in Threads :
            SharedReclaimerDrop(t) =>
                /\ is_dropped'
                /\ UNCHANGED <<dropped, freed, batch, batches, nodes>>]_vars
    /\ [](is_dropped =>
            \A t \in Threads : \A j \in 1..Len(tasks[t]) : tasks[t][j][1] # "retire")
    /\ []((is_dropped /\ \A t \in Threads : Idle(t)) =>
            /\ \A s \in Threads : ~SlotPending(s)
            /\ \A n \in DOMAIN nodes : nodes[n] = NoNode
            /\ \A i \in BatchIds : batches[i] = NoBatch
            /\ \A b \in Blocks :
                  /\ dropped[b] = (IF strong[b] = 0 THEN 1 ELSE 0)
                  /\ freed[b] = (IF weak[b] = 0 THEN 1 ELSE 0))

\* the drop of the reclaimer runs the closure of a block whose value holds
\* the last Arc of another block: that block goes at once
C37_Witness ==
    /\ is_dropped
    /\ \E t \in Threads :
          /\ At(t, "drop_in_place")
          /\ Top(t)[2] = 1
          /\ dropped[2] = 1
          /\ \E j \in 1..Len(tasks[t]) : tasks[t][j][1] = "detach_head"

----------------------------------------------------------------------------
(* The slot table of a StandardReclaimer: get_or_claim_slot, the thread-local
   SLOT_LOOKUP and its destructor *)

\* the items of the slot table and its linked nodes
Items == 1..Len(is_claimed)
LinkedNodes == Len(is_claimed) \div SLOTS_PER_NODE

\* a claim that stores true whatever the flag holds
is_claimed_store(i) == TRUE

\* slot.is_claimed.compare_exchange(false, true, SeqCst, SeqCst).is_ok()
is_claimed_cas(i) == ~is_claimed[i]

\* a destructor that clears the flag whatever the reclaimer's flag says
SlotLookup_drop_always(s) == [is_claimed EXCEPT ![s] = FALSE]

\* Drop for SlotLookup, for the entry of slot s:
\* if !(*is_terminated).get() { (**ptr).is_claimed.store(false, SeqCst) }
SlotLookup_drop(s) ==
    IF ~is_dropped THEN [is_claimed EXCEPT ![s] = FALSE] ELSE is_claimed

\* get_or_claim_slot: the entry of SLOT_LOOKUP, or_insert_with a claim
get_or_claim_slot(t) ==
    IF slot_lookup[t] = 0 THEN << <<"claim_item", 1, 0, 0>> >> ELSE <<>>

\* a thread registers with the reclaimer (the start of any call on it)
GetOrClaimSlot(t) ==
    /\ Idle(t)
    /\ ~is_dropped
    /\ slot_lookup[t] = 0
    /\ Start(t, get_or_claim_slot(t))
    /\ UNCHANGED <<blockVars, ret, testVars, smrVars, smrObs, cell, calls, stored,
                   is_dropped, fields, ctxVars>>

\* try_for_each_with_append: if f(item) { return item } on item i; past the
\* last item of a node comes curr.next.load(SeqCst)
ClaimItem(t) ==
    /\ At(t, "claim_item")
    /\ LET i == Top(t)[2]
       IN IF is_claimed_cas(i)
          THEN /\ is_claimed' = [is_claimed EXCEPT ![i] = TRUE]
               /\ slot_lookup' = [slot_lookup EXCEPT ![t] = i]
               /\ Continue(t, <<>>)
          ELSE /\ UNCHANGED <<is_claimed, slot_lookup>>
               /\ Continue(t, IF i % SLOTS_PER_NODE = 0
                              THEN << <<"load_next", i \div SLOTS_PER_NODE, 0, 0>> >>
                              ELSE << <<"claim_item", i + 1, 0, 0>> >>)
    /\ UNCHANGED <<blockVars, ret, testVars, smrVars, smrObs, cell, calls, stored,
                   is_dropped, fields, nodes_count, hyVars>>

\* let mut next = curr.next.load(SeqCst); if next.is_null() { alloc } for
\* node n
LoadNext(t) ==
    /\ At(t, "load_next")
    /\ LET n == Top(t)[2]
       IN Continue(t, IF LinkedNodes > n
                      THEN << <<"claim_item", n * SLOTS_PER_NODE + 1, 0, 0>> >>
                      ELSE << <<"cas_next", n, 0, 0>> >>)
    /\ UNCHANGED <<blockVars, ret, testVars, smrVars, smrObs, cell, calls, stored,
                   is_dropped, fields, ctxVars>>

\* curr.next.compare_exchange(null_mut(), new_node, SeqCst, SeqCst): Ok links
\* the new node (nodes_count.fetch_add(1) follows), Err frees it and goes on
\* with the node that is there
CasNext(t) ==
    /\ At(t, "cas_next")
    /\ LET n == Top(t)[2]
           on == << <<"claim_item", n * SLOTS_PER_NODE + 1, 0, 0>> >>
       IN IF LinkedNodes = n
          THEN /\ is_claimed' = is_claimed \o [j \in 1..SLOTS_PER_NODE |-> FALSE]
               /\ Continue(t, << <<"nodes_count_add", 0, 0, 0>> >> \o on)
          ELSE /\ UNCHANGED is_claimed
               /\ Continue(t, on)
    /\ UNCHANGED <<blockVars, ret, testVars, smrVars, smrObs, cell, calls, stored,
                   is_dropped, fields, nodes_count, slot_lookup, hyVars>>

\* self.nodes_count.fetch_add(1, SeqCst)
NodesCountAdd(t) ==
    /\ At(t, "nodes_count_add")
    /\ nodes_count' = nodes_count + 1
    /\ Continue(t, <<>>)
    /\ UNCHANGED <<blockVars, ret, testVars, smrVars, smrObs, cell, calls, stored,
                   is_dropped, fields, is_claimed, slot_lookup, hyVars>>

\* retire(ptr, f) by thread t, which retires the pointer t: the slot comes
\* from get_or_claim_slot
SlotsRetire(t) ==
    /\ Idle(t)
    /\ ~is_dropped
    /\ UnusedRetireIds # {}
    /\ LET r == MinOf(UnusedRetireIds)
       IN /\ retired' = [retired EXCEPT ![r] = t]
          /\ Start(t, get_or_claim_slot(t) \o << <<"slot_retire", t, "flag", r>> >>)
    /\ UNCHANGED <<depth, held, blockers, guards, executed>>
    /\ UNCHANGED <<blockVars, ret, testVars, smrVars, cell, calls, stored,
                   is_dropped, fields, ctxVars>>

\* the body of retire on the batch of the caller's slot: push; when the
\* batch is full, replace it by one of capacity get_nodes_count() *
\* SLOTS_PER_NODE and publish it to every slot of the table
SlotRetire(t) ==
    /\ At(t, "slot_retire")
    /\ LET s == slot_lookup[t]
           fns == Append(batch[s], <<Top(t)[2], Top(t)[3], Top(t)[4]>>)
       IN IF Len(fns) < Capacity(s)
          THEN /\ batch' = [batch EXCEPT ![s] = fns]
               /\ cap' = [cap EXCEPT ![s] = Capacity(s)]
               /\ Continue(t, <<>>)
               /\ UNCHANGED batches
          ELSE /\ FreeBatches # {}
               /\ LET i == MinOf(FreeBatches)
                  IN /\ batches' = [batches EXCEPT ![i] = [fns |-> fns, rc |-> 1]]
                     /\ Continue(t, [j \in Items |-> <<"scan_slot", i, j, 0>>]
                                    \o << <<"dec_batch", i, 0, 0>> >>)
               /\ batch' = [batch EXCEPT ![s] = <<>>]
               /\ cap' = [cap EXCEPT ![s] = nodes_count * SLOTS_PER_NODE]
    /\ UNCHANGED <<in_cs, snap_ptr, conflicts, primary, nodes>>
    /\ UNCHANGED <<blockVars, ret, testVars, smrObs, cell, calls, stored, is_dropped,
                   fields, ctxVars>>

\* the thread exits and its SLOT_LOOKUP is dropped; another thread may start
\* under the same name
ThreadExit(t) ==
    /\ Idle(t)
    /\ slot_lookup[t] # 0
    /\ calls < MaxCalls
    /\ calls' = calls + 1
    /\ is_claimed' = SlotLookup_drop(slot_lookup[t])
    /\ slot_lookup' = [slot_lookup EXCEPT ![t] = 0]
    /\ UNCHANGED <<blockVars, tasks, ret, testVars, smrVars, smrObs, cell, stored,
                   is_dropped, fields, nodes_count, hyVars>>

\* Drop for StandardReclaimer by thread t, which no other call overlaps:
\* the flag, the clean-up of every slot, and the removal of the entry in the
\* thread-local lookup
SlotsReclaimerDrop(t) ==
    /\ ~is_dropped
    /\ \A u \in Threads : Idle(u)
    /\ is_dropped' = TRUE
    /\ Start(t, drop_slots(1) \o << <<"lookup_remove", 0, 0, 0>> >>)
    /\ UNCHANGED <<blockVars, ret, testVars, smrVars, smrObs, cell, calls, stored,
                   fields, ctxVars>>

\* lookup.0.remove(&(self as *const Self))
LookupRemove(t) ==
    /\ At(t, "lookup_remove")
    /\ slot_lookup' = [slot_lookup EXCEPT ![t] = 0]
    /\ Continue(t, <<>>)
    /\ UNCHANGED <<blockVars, ret, testVars, smrVars, smrObs, cell, calls, stored,
                   is_dropped, fields, is_claimed, nodes_count, hyVars>>

\* StandardReclaimer::default(): one node of unclaimed slots, no thread has
\* an entry
InitSlots ==
    /\ is_claimed = [i \in 1..SLOTS_PER_NODE |-> FALSE]
    /\ nodes_count = 1
    /\ slot_lookup = [t \in Threads |-> 0]
    /\ is_reserved = [s \in Threads |-> FALSE]
    /\ is_active = [s \in Threads |-> FALSE]
    /\ slots_reserved = 0
    /\ slot_handle = [t \in Threads |-> 0]
    /\ strong = [b \in Blocks |-> 0]
    /\ weak = [b \in Blocks |-> 0]
    /\ arcs = [t \in Threads |-> [b \in Blocks |-> 0]]
    /\ weaks = [t \in Threads |-> [b \in Blocks |-> 0]]
    /\ dropped = [b \in Blocks |-> 0]
    /\ freed = [b \in Blocks |-> 0]
    /\ pool = [b \in Blocks |-> [k \in Kinds |-> 0]]
    /\ zeroSeen = [b \in Blocks |-> FALSE]
    /\ cell = [c \in Cells |-> 0]
    /\ calls = 0
    /\ stored = cell
    /\ is_dropped = FALSE
    /\ fields = [b \in Blocks |-> <<>>]
    /\ InitThreads
    /\ InitTest
    /\ InitSmr

NextSlots ==
    \/ \E t \in Threads : GetOrClaimSlot(t)
    \/ \E t \in Threads : ClaimItem(t)
    \/ \E t \in Threads : LoadNext(t)
    \/ \E t \in Threads : CasNext(t)
    \/ \E t \in Threads : NodesCountAdd(t)
    \/ \E t \in Threads : SlotsRetire(t)
    \/ \E t \in Threads : SlotRetire(t)
    \/ \E t \in Threads : ScanSlot(t)
    \/ \E t \in Threads : ScanSnapshot(t)
    \/ \E t \in Threads : DecBatch(t)
    \/ \E t \in Threads : RunFn(t)
    \/ \E t \in Threads : TakeBatch(t)
    \/ \E t \in Threads : DetachHead(t)
    \/ \E t \in Threads : ThreadExit(t)
    \/ \E t \in Threads : SlotsReclaimerDrop(t)
    \/ \E t \in Threads : LookupRemove(t)

SpecSlots == InitSlots /\ [][NextSlots]_vars

\* the fair behaviours: a thread that is in a call goes on with it
SpecSlotsFair ==
    SpecSlots /\ \A t \in Threads : WF_vars(tasks[t] # <<>> /\ NextSlots /\ tasks'[t] # tasks[t])

\* the threads that are in try_for_each_with_append
Claiming(t) ==
    \E j \in 1..Len(tasks[t]) :
       tasks[t][j][1] \in {"claim_item", "load_next", "cas_next", "nodes_count_add"}

C34_ExitAndInherit ==
    /\ [][\A t \in Threads :
            ThreadExit(t) =>
                LET s == slot_lookup[t]
                IN /\ is_claimed' = [is_claimed EXCEPT ![s] = (is_dropped /\ is_claimed[s])]
                   /\ UNCHANGED <<batch, cap, batches>>
                   /\ slot_lookup'[t] = 0]_vars
    /\ [][\A t \in Threads :
            (At(t, "claim_item") /\ tasks'[t] # tasks[t]) => UNCHANGED <<batch, cap, batches>>]_vars
    /\ [][\A t \in Threads :
            (At(t, "slot_retire") /\ tasks'[t] # tasks[t]) =>
                LET s == slot_lookup[t]
                    fns == Append(batch[s], <<Top(t)[2], Top(t)[3], Top(t)[4]>>)
                IN \/ batch'[s] = fns /\ batches' = batches
                   \/ /\ batch'[s] = <<>>
                      /\ \E i \in BatchIds :
                            batches[i].rc = 0 /\ batches'[i] = [fns |-> fns, rc |-> 1]]_vars
    /\ [](\A s \in Threads : \A j \in 1..Len(batch[s]) :
            retired[batch[s][j][3]] = batch[s][j][1] /\ executed[batch[s][j][3]] = 0)

\* a thread has the slot and the batch that the exit of another thread
\* left, with what that thread retired still in it
C34_Witness ==
    \E t \in Threads :
       /\ ~is_dropped
       /\ slot_lookup[t] # 0
       /\ \E j \in 1..Len(batch[slot_lookup[t]]) : batch[slot_lookup[t]][j][1] # t

----------------------------------------------------------------------------
(* hyaline::Context and statics: the thread-local SlotHandle, reserve_slot,
   leave_slot, retire, activate and deactivate.  batch[s] is Slot::batch
   and primary[s] is Slot::head of slot s *)

\* SLOT_HANDLE.try_with fails: the thread-local key is being destroyed
Destroyed == -1

\* the threads that exit in a behaviour
MaxExits == NThreads

\* room for the slots of the table
HySlots == (NThreads + 1) * SLOTS_PER_NODE

\* the closure of statics::retire::<T, IS_STRONG>
DeferredKind(is_strong) == IF is_strong THEN "arc" ELSE "std_weak"

\* get_slot: if borrowed.slot.is_null() { borrowed.slot = reserve_slot() }
get_slot(t) ==
    IF slot_handle[t] = 0
    THEN << <<"reserve_add", 0, 0, 0>>, <<"reserve_item", 1, 0, 0>> >>
    ELSE <<>>

\* a statics::retire that does nothing when the thread-local key is gone
statics_retire_noop(t, b, is_strong) ==
    IF slot_handle[t] # Destroyed
    THEN get_slot(t) \o << <<"hy_retire", b, DeferredKind(is_strong), 0>> >>
    ELSE <<>>

\* statics::retire(ptr): with the slot of get_slot, Context::retire of the
\* deferred drop; when get_slot fails, the drop itself
statics_retire(t, b, is_strong) ==
    IF slot_handle[t] # Destroyed
    THEN get_slot(t) \o << <<"hy_retire", b, DeferredKind(is_strong), 0>> >>
    ELSE << <<"run_fn", b, DeferredKind(is_strong), 0>> >>

\* a thread drops one of its handles: statics::retire::<T, IS_STRONG>(ptr)
StaticsRetire(t, b, is_strong) ==
    /\ Idle(t)
    /\ IF is_strong
       THEN /\ arcs[t][b] > 0
            /\ arcs' = [arcs EXCEPT ![t][b] = @ - 1]
            /\ UNCHANGED weaks
       ELSE /\ weaks[t][b] > 0
            /\ weaks' = [weaks EXCEPT ![t][b] = @ - 1]
            /\ UNCHANGED arcs
    /\ Start(t, statics_retire(t, b, is_strong))
    /\ UNCHANGED <<strong, zeroSeen, ret, weak, dropped, freed, pool, asserted,
                   testVars, smrVars, smrObs, cell, calls, stored, is_dropped, fields, ctxVars>>

\* Context::reserve_slot: self.slots_reserved.fetch_add(1, SeqCst)
ReserveAdd(t) ==
    /\ At(t, "reserve_add")
    /\ slots_reserved' = slots_reserved + 1
    /\ Continue(t, <<>>)
    /\ UNCHANGED <<blockVars, ret, testVars, smrVars, smrObs, cell, calls, stored,
                   is_dropped, fields, slotVars, is_reserved, is_active, slot_handle>>

\* Context::reserve_slot: try_for_each_with_append of
\* is_reserved.compare_exchange(false, true) on item i; past the last item
\* a node of fresh slots is linked
ReserveItem(t) ==
    /\ At(t, "reserve_item")
    /\ LET i == Top(t)[2]
       IN IF i > Len(is_reserved)
          THEN /\ Len(is_reserved) + SLOTS_PER_NODE <= HySlots
               /\ is_reserved' = is_reserved \o [j \in 1..SLOTS_PER_NODE |-> FALSE]
               /\ is_active' = is_active \o [j \in 1..SLOTS_PER_NODE |-> FALSE]
               /\ nodes_count' = nodes_count + 1
               /\ UNCHANGED <<tasks, slot_handle>>
          ELSE /\ IF ~is_reserved[i]
                  THEN /\ is_reserved' = [is_reserved EXCEPT ![i] = TRUE]
                       /\ slot_handle' = [slot_handle EXCEPT ![t] = i]
                       /\ Continue(t, <<>>)
                  ELSE /\ UNCHANGED <<is_reserved, slot_handle>>
                       /\ Continue(t, << <<"reserve_item", i + 1, 0, 0>> >>)
               /\ UNCHANGED <<is_active, nodes_count>>
    /\ UNCHANGED <<blockVars, ret, testVars, smrVars, smrObs, cell, calls, stored,
                   is_dropped, fields, is_claimed, slot_lookup, slots_reserved>>

\* Context::retire(slot, deferred_fn): push; below slots_reserved return;
\* else the batch is taken and published to the slots of the table
HyRetire(t) ==
    /\ At(t, "hy_retire")
    /\ LET s == slot_handle[t]
           fns == Append(batch[s], <<Top(t)[2], Top(t)[3], 0>>)
       IN IF Len(fns) < slots_reserved
          THEN /\ batch' = [batch EXCEPT ![s] = fns]
               /\ Continue(t, <<>>)
               /\ UNCHANGED batches
          ELSE /\ FreeBatches # {}
               /\ LET i == MinOf(FreeBatches)
                  IN /\ batches' = [batches EXCEPT ![i] = [fns |-> fns, rc |-> 1]]
                     /\ Continue(t, << <<"hy_scan", i, 1, 0>> >>)
               /\ batch' = [batch EXCEPT ![s] = <<>>]
    /\ UNCHANGED <<in_cs, cap, snap_ptr, conflicts, primary, nodes>>
    /\ UNCHANGED <<blockVars, ret, testVars, smrObs, cell, calls, stored, is_dropped,
                   fields, ctxVars>>

\* for s in self.slots.iter(SeqCst): the slot of the caller and the slots
\* that are not active are passed over; an active one gets a node that
\* holds the batch; after the last slot the batch of the caller is dropped
HyScan(t) ==
    /\ At(t, "hy_scan")
    /\ LET i == Top(t)[2]
           s == Top(t)[3]
           on == << <<"hy_scan", i, s + 1, 0>> >>
       IN IF s > Len(is_reserved)
          THEN Continue(t, << <<"dec_batch", i, 0, 0>> >>)
          ELSE IF s = slot_handle[t] \/ ~is_active[s]
               THEN Continue(t, on)
               ELSE Continue(t, << <<"insert", i, <<s, 0>>, 0>> >> \o on)
    /\ UNCHANGED <<blockVars, ret, testVars, smrVars, smrObs, cell, calls, stored,
                   is_dropped, fields, ctxVars>>

\* statics::acquire(): the slot of get_slot, then Slot::activate
Activate(t) ==
    /\ Idle(t)
    /\ slot_handle[t] # Destroyed
    /\ IF slot_handle[t] = 0 THEN TRUE ELSE ~is_active[slot_handle[t]]
    /\ Start(t, get_slot(t) \o << <<"activate", 0, 0, 0>> >>)
    /\ UNCHANGED <<blockVars, ret, testVars, smrVars, smrObs, cell, calls, stored,
                   is_dropped, fields, ctxVars>>

\* Slot::activate: self.is_active.store(true, SeqCst)
ActivateStep(t) ==
    /\ At(t, "activate")
    /\ is_active' = [is_active EXCEPT ![slot_handle[t]] = TRUE]
    /\ Continue(t, <<>>)
    /\ UNCHANGED <<blockVars, ret, testVars, smrVars, smrObs, cell, calls, stored,
                   is_dropped, fields, slotVars, is_reserved, slots_reserved, slot_handle>>

\* Slot::deactivate: self.is_active.store(false, SeqCst); self.detach_head()
Deactivate(t) ==
    /\ Idle(t)
    /\ slot_handle[t] > 0
    /\ is_active[slot_handle[t]]
    /\ is_active' = [is_active EXCEPT ![slot_handle[t]] = FALSE]
    /\ Start(t, << <<"detach_head", slot_handle[t], 0, 0>> >>)
    /\ UNCHANGED <<blockVars, ret, testVars, smrVars, smrObs, cell, calls, stored,
                   is_dropped, fields, slotVars, is_reserved, slots_reserved, slot_handle>>

\* the thread exits outside of acquire and release: SLOT_HANDLE is
\* destroyed, and Drop for SlotHandle calls leave_slot when it has a slot
HyThreadExit(t) ==
    /\ Idle(t)
    /\ slot_handle[t] # Destroyed
    /\ IF slot_handle[t] = 0 THEN TRUE ELSE ~is_active[slot_handle[t]]
    /\ calls < MaxExits
    /\ calls' = calls + 1
    /\ slot_handle' = [slot_handle EXCEPT ![t] = Destroyed]
    /\ Start(t, IF slot_handle[t] = 0 THEN <<>>
                ELSE << <<"leave_store", slot_handle[t], 0, 0>>,
                        <<"leave_sub", 0, 0, 0>> >>)
    /\ UNCHANGED <<blockVars, ret, testVars, smrVars, smrObs, cell, stored,
                   is_dropped, fields, slotVars, is_reserved, is_active, slots_reserved>>

\* another thread starts under the name of one that is gone
HyThreadStart(t) ==
    /\ Idle(t)
    /\ slot_handle[t] = Destroyed
    /\ slot_handle' = [slot_handle EXCEPT ![t] = 0]
    /\ UNCHANGED <<blockVars, tasks, ret, testVars, smrVars, smrObs, cell, calls, stored,
                   is_dropped, fields, slotVars, is_reserved, is_active, slots_reserved>>

\* leave_slot: (*slot).is_reserved.store(false, SeqCst)
LeaveStore(t) ==
    /\ At(t, "leave_store")
    /\ is_reserved' = [is_reserved EXCEPT ![Top(t)[2]] = FALSE]
    /\ Continue(t, <<>>)
    /\ UNCHANGED <<blockVars, ret, testVars, smrVars, smrObs, cell, calls, stored,
                   is_dropped, fields, slotVars, is_active, slots_reserved, slot_handle>>

\* leave_slot: if self.slots_reserved.fetch_sub(1, SeqCst) == 1 { clean up }
LeaveSub(t) ==
    /\ At(t, "leave_sub")
    /\ slots_reserved' = slots_reserved - 1
    /\ Continue(t, IF slots_reserved = 1 THEN << <<"cleanup_slot", 1, 0, 0>> >> ELSE <<>>)
    /\ UNCHANGED <<blockVars, ret, testVars, smrVars, smrObs, cell, calls, stored,
                   is_dropped, fields, slotVars, is_reserved, is_active, slot_handle>>

\* a clean-up that passes over a reserved slot and goes on
cleanup_slot_continue(j) ==
    IF ~is_reserved[j]
    THEN << <<"take_batch", j, 0, 0>>, <<"detach_head", j, 0, 0>>,
            <<"cleanup_unlock", j, 0, 0>> >>
    ELSE << <<"cleanup_slot", j + 1, 0, 0>> >>

\* leave_slot, for slot j of self.slots.iter(SeqCst): Ok of
\* is_reserved.compare_exchange(false, true) is followed by the drop of the
\* batch, detach_head and is_reserved.store(false); Err breaks
cleanup_slot(j) ==
    IF ~is_reserved[j]
    THEN << <<"take_batch", j, 0, 0>>, <<"detach_head", j, 0, 0>>,
            <<"cleanup_unlock", j, 0, 0>> >>
    ELSE <<>>

CleanupSlot(t) ==
    /\ At(t, "cleanup_slot")
    /\ LET j == Top(t)[2]
       IN IF j > Len(is_reserved)
          THEN /\ Continue(t, <<>>)
               /\ UNCHANGED is_reserved
          ELSE /\ Continue(t, cleanup_slot(j))
               /\ is_reserved' = [is_reserved EXCEPT ![j] = TRUE]
    /\ UNCHANGED <<blockVars, ret, testVars, smrVars, smrObs, cell, calls, stored,
                   is_dropped, fields, slotVars, is_active, slots_reserved, slot_handle>>

\* slot.is_reserved.store(false, SeqCst), and on to the next slot
CleanupUnlock(t) ==
    /\ At(t, "cleanup_unlock")
    /\ is_reserved' = [is_reserved EXCEPT ![Top(t)[2]] = FALSE]
    /\ Continue(t, << <<"cleanup_slot", Top(t)[2] + 1, 0, 0>> >>)
    /\ UNCHANGED <<blockVars, ret, testVars, smrVars, smrObs, cell, calls, stored,
                   is_dropped, fields, slotVars, is_active, slots_reserved, slot_handle>>

\* Context::default(): one node of slots, none reserved; every thread has
\* an Arc on a block, and the last thread a Weak on block 1
InitHyaline ==
    /\ is_reserved = [i \in 1..SLOTS_PER_NODE |-> FALSE]
    /\ is_active = [i \in 1..SLOTS_PER_NODE |-> FALSE]
    /\ slots_reserved = 0
    /\ slot_handle = [t \in Threads |-> 0]
    /\ is_claimed = <<>>
    /\ nodes_count = 1
    /\ slot_lookup = [t \in Threads |-> 0]
    /\ arcs = [t \in Threads |-> [b \in Blocks |-> IF b = ((t - 1) % NBlocks) + 1 THEN 1 ELSE 0]]
    /\ weaks = [t \in Threads |-> [b \in Blocks |-> IF t = NThreads /\ b = 1 THEN 1 ELSE 0]]
    /\ strong = [b \in Blocks |-> Cardinality({t \in Threads : ((t - 1) % NBlocks) + 1 = b})]
    /\ weak = [b \in Blocks |-> IF b = 1 THEN 2 ELSE 1]
    /\ dropped = [b \in Blocks |-> 0]
    /\ freed = [b \in Blocks |-> 0]
    /\ pool = [b \in Blocks |-> [k \in Kinds |-> 0]]
    /\ zeroSeen = [b \in Blocks |-> FALSE]
    /\ cell = [c \in Cells |-> 0]
    /\ calls = 0
    /\ stored = cell
    /\ is_dropped = FALSE
    /\ fields = [b \in Blocks |-> <<>>]
    /\ InitThreads
    /\ InitTest
    /\ in_cs = [s \in 1..HySlots |-> FALSE]
    /\ batch = [s \in 1..HySlots |-> <<>>]
    /\ cap = [s \in 1..HySlots |-> 0]
    /\ primary = [s \in 1..HySlots |-> 0]
    /\ snap_ptr = [s \in Threads |-> [k \in 1..SNAPSHOT_PTRS_PER_NODE |-> 0]]
    /\ conflicts = [s \in Threads |-> [k \in Entries |-> 0]]
    /\ nodes = [n \in NodeIds |-> NoNode]
    /\ batches = [i \in BatchIds |-> NoBatch]
    /\ depth = [s \in Threads |-> 0]
    /\ held = [s \in Threads |-> [k \in Entries |-> "none"]]
    /\ retired = [r \in RetireIds |-> 0]
    /\ blockers = [r \in RetireIds |-> {}]
    /\ guards = [r \in RetireIds |-> {}]
    /\ executed = [r \in RetireIds |-> 0]

NextHyaline ==
    \/ \E t \in Threads, b \in Blocks, is_strong \in BOOLEAN : StaticsRetire(t, b, is_strong)
    \/ \E t \in Threads : ReserveAdd(t)
    \/ \E t \in Threads : ReserveItem(t)
    \/ \E t \in Threads : HyRetire(t)
    \/ \E t \in Threads : HyScan(t)
    \/ \E t \in Threads : Insert(t)
    \/ \E t \in Threads : InsertLink(t)
    \/ \E t \in Threads : DecNode(t)
    \/ \E t \in Threads : DecBatch(t)
    \/ \E t \in Threads : RunFn(t)
    \/ \E t \in Threads : DetachHead(t)
    \/ \E t \in Threads : TakeBatch(t)
    \/ \E t \in Threads : Activate(t)
    \/ \E t \in Threads : ActivateStep(t)
    \/ \E t \in Threads : Deactivate(t)
    \/ \E t \in Threads : HyThreadExit(t)
    \/ \E t \in Threads : HyThreadStart(t)
    \/ \E t \in Threads : LeaveStore(t)
    \/ \E t \in Threads : LeaveSub(t)
    \/ \E t \in Threads : CleanupSlot(t)
    \/ \E t \in Threads : CleanupUnlock(t)

SpecHyaline == InitHyaline /\ [][NextHyaline]_vars

\* the closures that wait to run in thread t's call
RunFns(q) == Cardinality({j \in 1..Len(q) : q[j][1] = "run_fn"})

\* C38: statics::retire on a thread whose slot handle can no longer be had
\* leaves the thread nothing but the drop itself, which runs next on that
\* thread and puts nothing in a batch or a list; with the handle at hand it
\* leaves the deferred drop to Context::retire, which changes no count: it
\* either pushes on the batch of the slot and returns or publishes that
\* batch; and a thread comes to run closures only from a batch that has
\* lost its last holder, from the clean-up of leave_slot or from that
\* synchronous drop.
C38_StaticsRetire ==
    /\ [][\A t \in Threads, b \in Blocks, is_strong \in BOOLEAN :
            StaticsRetire(t, b, is_strong) =>
                /\ UNCHANGED <<strong, weak, dropped, freed, batch, batches, nodes, primary>>
                /\ IF slot_handle[t] = Destroyed
                   THEN tasks'[t] = << <<"run_fn", b, DeferredKind(is_strong), 0>> >>
                   ELSE /\ RunFns(tasks'[t]) = 0
                        /\ tasks'[t][Len(tasks'[t])]
                              = <<"hy_retire", b, DeferredKind(is_strong), 0>>]_vars
    /\ [][\A t \in Threads :
            (At(t, "run_fn") /\ tasks'[t] # tasks[t]) =>
                /\ UNCHANGED <<batch, batches, nodes, primary, is_reserved, slots_reserved>>
                /\ LET b == Top(t)[2]
                   IN IF Top(t)[3] = "arc"
                      THEN strong'[b] = strong[b] - 1
                      ELSE weak'[b] = weak[b] - 1 /\ strong' = strong]_vars
    /\ [][\A t \in Threads :
            (At(t, "hy_retire") /\ tasks'[t] # tasks[t]) =>
                LET s == slot_handle[t]
                    fns == Append(batch[s], <<Top(t)[2], Top(t)[3], 0>>)
                IN /\ UNCHANGED <<strong, weak, dropped, freed>>
                   /\ RunFns(tasks'[t]) = 0
                   /\ \/ /\ batch'[s] = fns
                         /\ batches' = batches
                         /\ tasks'[t] = Tail(tasks[t])
                      \/ \E i \in BatchIds :
                            batches[i].rc = 0 /\ batches'[i] = [fns |-> fns, rc |-> 1]]_vars
    /\ [][\A t \in Threads :
            RunFns(tasks'[t]) > RunFns(tasks[t]) =>
                \/ At(t, "dec_batch") /\ batches'[Top(t)[2]] = NoBatch
                \/ At(t, "take_batch") /\ slot_handle[t] = Destroyed
                \/ Idle(t) /\ slot_handle[t] = Destroyed]_vars

\* a thread whose SLOT_HANDLE is gone is about to drop a handle at once,
\* while the batch of a slot holds a deferred drop
C38_Witness ==
    \E t \in Threads :
       /\ slot_handle[t] = Destroyed
       /\ Len(tasks[t]) = 1
       /\ At(t, "run_fn")
       /\ \E s \in DOMAIN batch : batch[s] # <<>>

\* the steps of leave_slot's clean-up
CleanupOps == {"cleanup_slot", "take_batch", "detach_head", "cleanup_unlock"}

\* thread t's step ends the clean-up of leave_slot
CleanupEnds(t) ==
    /\ At(t, "cleanup_slot")
    /\ tasks'[t] # tasks[t]
    /\ \A j \in 1..Len(tasks'[t]) : tasks'[t][j][1] \notin CleanupOps

\* retirements stay in the batch of the caller's slot until there are as
\* many as there are reserved slots
HyLocalBatch ==
    [][\A t \in Threads :
          (At(t, "hy_retire") /\ tasks'[t] # tasks[t]) =>
              LET s == slot_handle[t]
                  fns == Append(batch[s], <<Top(t)[2], Top(t)[3], 0>>)
              IN IF Len(fns) < slots_reserved
                 THEN /\ batch'[s] = fns
                      /\ batches' = batches
                      /\ tasks'[t] = Tail(tasks[t])
                 ELSE /\ batch'[s] = <<>>
                      /\ \E i \in BatchIds :
                            batches[i].rc = 0 /\ batches'[i] = [fns |-> fns, rc |-> 1]]_vars

\* the publication gives a node that holds the batch to every slot but the
\* caller's that it finds active; a batch is held as long as one of its
\* nodes is or the publication goes on, and its closures run when it is no
\* longer held; and a node leaves the list of a slot only when the head of
\* that slot is detached, which deactivate and the clean-up of leave_slot do
HyDeferred ==
    /\ [][\A t \in Threads :
            (At(t, "hy_scan") /\ tasks'[t] # tasks[t]) =>
                LET i == Top(t)[2]
                    s == Top(t)[3]
                IN (s <= Len(is_reserved) /\ s # slot_handle[t] /\ is_active[s]) =>
                      Head(tasks'[t]) = <<"insert", i, <<s, 0>>, 0>>]_vars
    /\ [](\A n \in DOMAIN nodes : nodes[n].rc > 0 => batches[nodes[n].batch].rc > 0)
    /\ [](\A t \in Threads : \A j \in 1..Len(tasks[t]) :
            tasks[t][j][1] \in {"hy_scan", "insert"} => batches[tasks[t][j][2]].rc > 0)
    /\ [][\A t \in Threads :
            RunFns(tasks'[t]) > RunFns(tasks[t]) =>
                \/ At(t, "dec_batch") /\ batches[Top(t)[2]].rc = 1
                \/ At(t, "take_batch")
                \/ Idle(t) /\ slot_handle[t] = Destroyed]_vars
    /\ [][\A s \in DOMAIN primary :
            (primary[s] # 0 /\ primary'[s] # primary[s]) =>
                \/ \E t \in Threads :
                      /\ At(t, "insert")
                      /\ Top(t)[3] = <<s, 0>>
                      /\ tasks'[t][1] = <<"insert_link", primary'[s], primary[s], 0>>
                \/ \E t \in Threads :
                      /\ At(t, "detach_head")
                      /\ Top(t)[2] = s
                      /\ primary'[s] = 0
                      /\ \/ ~is_active[s] /\ slot_handle[t] = s
                         \/ is_reserved[s] /\ slot_handle[t] = Destroyed]_vars

====
